---------------------------- MODULE Spec2Model ----------------------------
(***************************************************************************)
(* Model of the sudoku engine (sudoku-solver) and of the command handler   *)
(* of the bevy front end (sudoku-bevy, on_game_input).                     *)
(*                                                                         *)
(* A board is a function from BlockIndex (row, col), both 1..9, to a       *)
(* block.  A block carries its status and its optional conflict tag.       *)
(* Rust enums are modelled as records with a "kind" field; the fields a    *)
(* variant does not carry hold a fixed filler so that equality of records  *)
(* is equality of the Rust values.                                         *)
(***************************************************************************)
EXTENDS Integers, Sequences, FiniteSets, TLC

VARIABLES
    board,        \* the active SudokuBoard
    selected,     \* SelectedBlock { mode, current }
    engaging,     \* the EngagingStrategy of the active board
    board_state,  \* the BoardState of the active board
    changed,      \* SudokuBoardResources is flagged changed
    before,       \* the board as the last board command found it
    last,         \* the last board command and its arguments
    steps,        \* number of board commands handled so far
    template,     \* the grid last given to from_u8 or fill_board_u8
    pressed,      \* the last Strategy command that was processed
    built,        \* how the last construction call ended: "Ok", "Err", "Panic"
    number_set    \* a SudokuNumbers value the library calls act on

vars == <<board, selected, engaging, board_state, changed, before, last, steps,
          template, pressed, built, number_set>>

(***************************************************************************)
(* Bounds of the exploration.                                              *)
(***************************************************************************)
\* digits the user presses: 1..MaxKey
MaxKey == 2
\* number of blocks of ClickOrder the user moves the selection to
MaxFocus == 3
\* number of board-changing commands of an editing session
MaxEdits == 3
\* number of board-changing commands of a solving session
MaxCmds == 4
\* number of board-changing commands of a mixed session
MaxSteps == 2
\* raw u8 values given to the construction entry points: 0..MaxRaw
MaxRaw == 10
\* number of blocks of RawOrder a raw grid gives a value
MaxRawCells == 2
\* number of construction calls of a construction session
MaxBuilds == 2
\* number of board-changing commands of an editing session with
\* ResolveNakedSingles
MaxResolves == 4
\* number of board commands of a session that finishes the board
MaxFinish == 3

(***************************************************************************)
(* numbers.rs                                                              *)
(***************************************************************************)
\* SudokuNumber: One..Nine, as their usize values
SudokuNumber == 1..9

\* SudokuNumber::to_index
to_index(n) == n - 1

\* TryFrom<usize> for SudokuNumber: "Err" for a value outside 1..9
TryFromUsize(value) ==
    IF value \in 1..9 THEN [ok |-> TRUE, number |-> value]
                      ELSE [ok |-> FALSE, number |-> 0]

\* the index range of SudokuNumbers.numbers: [bool; 9]
Slots == 0..8

\* SudokuNumbers::default(): no number contained
NumbersDefault == [i \in Slots |-> FALSE]

\* SudokuNumbers::new_all()
new_all == [i \in Slots |-> TRUE]

\* set_number taking the number itself for its slot
set_number_slot(s, number) == [s EXCEPT ![number % 9] = TRUE]

\* SudokuNumbers::set_number
set_number(s, number) == [s EXCEPT ![to_index(number)] = TRUE]

\* SudokuNumbers::del_number
del_number(s, number) == [s EXCEPT ![to_index(number)] = FALSE]

\* SudokuNumbers::has_number
has_number(s, number) == s[to_index(number)]

\* SudokuNumbers::count_numbers
count_numbers(s) == Cardinality({i \in Slots : s[i]})

RECURSIVE GetNumbersFrom(_, _)
GetNumbersFrom(s, i) ==
    IF i > 8 THEN <<>>
    ELSE (IF s[i] THEN <<i + 1>> ELSE <<>>) \o GetNumbersFrom(s, i + 1)

\* SudokuNumbers::get_numbers: the contained numbers, by ascending slot
get_numbers(s) == GetNumbersFrom(s, 0)

RECURSIVE NumbersNewFrom(_, _, _)
NumbersNewFrom(acc, numbers, k) ==
    IF k > Len(numbers) THEN acc
    ELSE NumbersNewFrom(set_number(acc, numbers[k]), numbers, k + 1)

\* SudokuNumbers::new(iterator): sets the slot of every number of the sequence
NumbersNew(numbers) == NumbersNewFrom(NumbersDefault, numbers, 1)

RECURSIVE DelNumbersFrom(_, _, _)
DelNumbersFrom(acc, numbers, k) ==
    IF k > Len(numbers) THEN acc
    ELSE DelNumbersFrom(del_number(acc, numbers[k]), numbers, k + 1)

\* SudokuNumbers::del_numbers(iterator) (spec 4.1 remove_all)
del_numbers(s, numbers) == DelNumbersFrom(s, numbers, 1)

\* SudokuNumbers::iter() (spec 4.1 present(): ascending)
iter(s) == get_numbers(s)

\* the members of a SudokuNumbers value, as a set
Members(s) == {i + 1 : i \in {j \in Slots : s[j]}}

(***************************************************************************)
(* lib.rs: BlockIndex, Conflicting, Possibilities, SudokuBlockStatus       *)
(***************************************************************************)
\* BlockIndex { row, col }
BlockIndex == SudokuNumber \X SudokuNumber

\* BlockIndex::from_index(row, col): zero-based to domain values
from_index(row, col) == <<row + 1, col + 1>>

\* filler for the block_index field of a tag that names no block
NoIndex == <<0, 0>>

\* Option<Conflicting>::None
NoConflict == [kind |-> "None", block_index |-> NoIndex, number |-> 0]

\* Conflicting::Source
ConflictSource == [kind |-> "Source", block_index |-> NoIndex, number |-> 0]

\* Conflicting::AffectedBy(index)
AffectedBy(index) == [kind |-> "AffectedBy", block_index |-> index, number |-> 0]

\* Conflicting::AffectedByPossibilities { block_index, number }
AffectedByPossibilities(index, number) ==
    [kind |-> "AffectedByPossibilities", block_index |-> index, number |-> number]

\* Conflicting::is_affected_by_and(|f| f == index)
is_affected_by(conf, index) ==
    conf.kind = "AffectedBy" /\ conf.block_index = index

\* Conflicting::is_affected_by_possibilities_and(|b, _| b == index)
is_affected_by_possibilities(conf, index) ==
    conf.kind = "AffectedByPossibilities" /\ conf.block_index = index

\* StrategyMarker { strategy, effect }, stored under its number: the
\* HashMap<SudokuNumber, StrategyMarker> is the set of its entries
Marker(number, strategy, effect) ==
    [number |-> number, strategy |-> strategy, effect |-> effect]

\* Possibilities::new(numbers)
PossibilitiesNew(numbers) ==
    [numbers |-> numbers,
     conflicting_numbers |-> NumbersDefault,
     strategy_markers |-> {}]

\* Possibilities::default()
PossibilitiesDefault == PossibilitiesNew(NumbersDefault)

\* Possibilities::is_conflicting
is_conflicting(poss, number) ==
    has_number(poss.numbers, number) /\ has_number(poss.conflicting_numbers, number)

\* Possibilities::update_strategy_marker: insert or overwrite the entry
update_strategy_marker(poss, number, strategy, effect) ==
    [poss EXCEPT !.strategy_markers =
        {m \in @ : m.number # number} \cup {Marker(number, strategy, effect)}]

\* Possibilities::clear_strategy_marker
clear_strategy_marker(poss, number) ==
    [poss EXCEPT !.strategy_markers = {m \in @ : m.number # number}]

\* SudokuBlockStatus::Unresolved
Unresolved == [kind |-> "Unresolved", number |-> 0, poss |-> PossibilitiesDefault]

\* SudokuBlockStatus::Fixed(number)
Fixed(number) == [kind |-> "Fixed", number |-> number, poss |-> PossibilitiesDefault]

\* SudokuBlockStatus::Resolved(number)
Resolved(number) == [kind |-> "Resolved", number |-> number, poss |-> PossibilitiesDefault]

\* SudokuBlockStatus::Possibilities(poss)
Possibilities(poss) == [kind |-> "Possibilities", number |-> 0, poss |-> poss]

is_unresolved(block) == block.status.kind = "Unresolved"
is_fixed(block) == block.status.kind = "Fixed"
is_resolved(block) == block.status.kind = "Resolved"
is_possibilities(block) == block.status.kind = "Possibilities"

\* SudokuBlock::new(row, col, status): no conflict tag
SudokuBlockNew(status) == [conflicting |-> NoConflict, status |-> status]

(***************************************************************************)
(* lib.rs: containers.  A container is the sequence of the indexes of its  *)
(* blocks, in the order the iterator yields them.                          *)
(***************************************************************************)
\* [[SudokuBlock; 9]; 9]: the blocks of a board as an explicit array
Blocks(b) == b @@ <<>>

\* SudokuBoard::square_number(row, col)
square_number(row, col) == ((to_index(row) \div 3) * 3 + (to_index(col) \div 3)) + 1

\* SudokuBoard::square_number_to_index
square_number_to_index(square) ==
    <<(to_index(square) \div 3) * 3, (to_index(square) % 3) * 3>>

\* SudokuBoard::get_row
get_row(row) == [k \in 1..9 |-> <<row, k>>]

\* SudokuBoard::get_col
get_col(col) == [k \in 1..9 |-> <<k, col>>]

\* SudokuBoard::get_square: three rows of three blocks, row by row
get_square(square) ==
    LET start == square_number_to_index(square)
    IN [k \in 1..9 |-> from_index(start[1] + ((k - 1) \div 3), start[2] + ((k - 1) % 3))]

\* SudokuNumber::iter_numbers (spec: row-major order of (row, col))
iter_numbers == [k \in 1..81 |-> <<((k - 1) \div 9) + 1, ((k - 1) % 9) + 1>>]

\* SudokuNumber::ALL
ALL == [k \in 1..9 |-> k]

RECURSIVE FilterMapNumbers(_, _, _)
FilterMapNumbers(b, container, k) ==
    IF k > Len(container) THEN <<>>
    ELSE (IF b[container[k]].status.kind \in {"Fixed", "Resolved"}
          THEN <<b[container[k]].status.number>> ELSE <<>>)
         \o FilterMapNumbers(b, container, k + 1)

\* a get_numbers that leaves out the Resolved blocks
GetFixedNumbers(b, container) ==
    NumbersNew(FilterMapNumbers(
        b, SelectSeq(container, LAMBDA f : b[f].status.kind = "Fixed"), 1))

\* SudokuBoard::get_numbers: the numbers of the Fixed and Resolved blocks
GetNumbers(b, container) == NumbersNew(FilterMapNumbers(b, container, 1))

\* SudokuBoard::get_block_possible_numbers
get_block_possible_numbers(b, index) ==
    del_numbers(new_all,
        get_numbers(GetNumbers(b, get_row(index[1])))
        \o get_numbers(GetNumbers(b, get_col(index[2])))
        \o get_numbers(GetNumbers(b, get_square(square_number(index[1], index[2])))))

\* an update_possibilities that keeps what a Possibilities block recorded
\* next to its numbers
UpdateNumbersOnly(b) ==
    Blocks([index \in BlockIndex |->
        IF b[index].status.kind \in {"Unresolved", "Possibilities"}
        THEN [b[index] EXCEPT !.status =
                Possibilities([@.poss EXCEPT !.numbers =
                                  get_block_possible_numbers(b, index)])]
        ELSE b[index]])

\* SudokuBoard::update_possibilities.  The loop over (row, col) writes only
\* Unresolved and Possibilities blocks and get_block_possible_numbers reads
\* only Fixed and Resolved blocks, so every iteration sees the numbers of
\* the board the call started with.
update_possibilities(b) ==
    Blocks([index \in BlockIndex |->
        IF b[index].status.kind \in {"Unresolved", "Possibilities"}
        THEN [b[index] EXCEPT !.status =
                Possibilities(PossibilitiesNew(get_block_possible_numbers(b, index)))]
        ELSE b[index]])

(***************************************************************************)
(* lib.rs: mistakes and conflict marking.  An Option<Vec<BlockIndex>> is   *)
(* the sequence itself: the code never builds Some of an empty vector, so  *)
(* None is the empty sequence.  A call that returns a value and changes    *)
(* the board yields the record [board, ret].                               *)
(***************************************************************************)
RECURSIVE FindSimilarFrom(_, _, _, _, _)
FindSimilarFrom(b, number, container, ignore_index, k) ==
    IF k > Len(container) THEN <<>>
    ELSE LET f == container[k]
         IN (IF /\ b[f].status.kind \in {"Fixed", "Resolved"}
                /\ \E g \in ignore_index : f # g
                /\ b[f].status.number = number
             THEN <<f>> ELSE <<>>)
            \o FindSimilarFrom(b, number, container, ignore_index, k + 1)

\* a find_similar_in_container that looks at the Resolved blocks only
find_similar_resolved(b, number, container, ignore_index) ==
    SelectSeq(container,
              LAMBDA f : /\ b[f].status.kind = "Resolved"
                         /\ \E g \in ignore_index : f # g
                         /\ b[f].status.number = number)

\* SudokuBoard::find_similar_in_container; ignore_index is {} for None and
\* {g} for Some(g)
find_similar_in_container(b, number, container, ignore_index) ==
    FindSimilarFrom(b, number, container, ignore_index, 1)

RECURSIVE DedupFrom(_, _)
DedupFrom(v, k) ==
    IF k > Len(v) THEN <<>>
    ELSE (IF k > 1 /\ v[k] = v[k - 1] THEN <<>> ELSE <<v[k]>>) \o DedupFrom(v, k + 1)

\* Vec::dedup: drops an element equal to the one right before it
dedup(v) == DedupFrom(v, 1)

\* a find_mistakes that looks at the row only
find_mistakes_in_row(b, index, number) ==
    dedup(find_similar_in_container(b, number, get_row(index[1]), {index}))

\* SudokuBoard::find_mistakes
find_mistakes(b, index, number) ==
    LET row_m == find_similar_in_container(b, number, get_row(index[1]), {index})
        col_m == find_similar_in_container(b, number, get_col(index[2]), {index})
        square_m == find_similar_in_container(b, number,
                        get_square(square_number(index[1], index[2])), {index})
    IN dedup(row_m \o col_m \o square_m)

\* SudokuBoard::find_resolved_block_mistakes
find_resolved_block_mistakes(b, index) ==
    IF b[index].status.kind = "Resolved"
    THEN find_mistakes(b, index, b[index].status.number)
    ELSE <<>>

\* a clear_all_previous_conflicts that clears nothing
keep_previous_conflicts(b, index) == b

\* SudokuBoard::clear_all_previous_conflicts
clear_all_previous_conflicts(b, index) ==
    Blocks([f \in BlockIndex |->
        IF \/ is_affected_by(b[f].conflicting, index)
           \/ is_affected_by_possibilities(b[f].conflicting, index)
        THEN [b[f] EXCEPT !.conflicting = NoConflict]
        ELSE b[f]])

RECURSIVE TagAffected(_, _, _, _, _)
\* the loop "for affected in affected_indexes" of the marking functions;
\* skip_self is the "if &affected == index { continue }" of the resolved one
TagAffected(b, affected_indexes, k, index, tag) ==
    IF k > Len(affected_indexes) THEN b
    ELSE IF affected_indexes[k] = index
         THEN TagAffected(b, affected_indexes, k + 1, index, tag)
         ELSE TagAffected([b EXCEPT ![affected_indexes[k]].conflicting = tag],
                          affected_indexes, k + 1, index, tag)

\* a mark_conflicts_resolved that returns at once when the block is already
\* tagged Source
mark_conflicts_resolved_once(b, index) ==
    IF b[index].conflicting = ConflictSource
    THEN [board |-> b, ret |-> TRUE]
    ELSE LET cleared == clear_all_previous_conflicts(b, index)
             affected_indexes == find_resolved_block_mistakes(cleared, index)
         IN IF affected_indexes # <<>>
            THEN [board |->
                     TagAffected([cleared EXCEPT ![index].conflicting = ConflictSource],
                                 affected_indexes, 1, index, AffectedBy(index)),
                  ret |-> FALSE]
            ELSE [board |-> [cleared EXCEPT ![index].conflicting = NoConflict],
                  ret |-> TRUE]

\* a mark_conflicts_resolved that tags the block and not the blocks it
\* conflicts with
mark_conflicts_resolved_alone(b, index) ==
    LET cleared == clear_all_previous_conflicts(b, index)
        affected_indexes == find_resolved_block_mistakes(cleared, index)
    IN IF affected_indexes # <<>>
       THEN [board |-> [cleared EXCEPT ![index].conflicting = ConflictSource],
             ret |-> FALSE]
       ELSE [board |-> [cleared EXCEPT ![index].conflicting = NoConflict],
             ret |-> TRUE]

\* SudokuBoard::mark_conflicts_resolved
mark_conflicts_resolved(b, index) ==
    LET cleared == clear_all_previous_conflicts(b, index)
        affected_indexes == find_resolved_block_mistakes(cleared, index)
    IN IF affected_indexes # <<>>
       THEN [board |-> TagAffected([cleared EXCEPT ![index].conflicting = ConflictSource],
                                   affected_indexes, 1, index, AffectedBy(index)),
             ret |-> FALSE]
       ELSE [board |-> [cleared EXCEPT ![index].conflicting = NoConflict],
             ret |-> TRUE]

\* a mark_conflicts_unresolved that clears the tag of the block only
mark_conflicts_unresolved_own(b, index) ==
    [board |-> [b EXCEPT ![index].conflicting = NoConflict], ret |-> TRUE]

\* SudokuBoard::mark_conflicts_unresolved
mark_conflicts_unresolved(b, index) ==
    [board |-> clear_all_previous_conflicts(
                   [b EXCEPT ![index].conflicting = NoConflict], index),
     ret |-> TRUE]

\* Option<(SudokuNumber, bool)>::None
NoInfo == [some |-> FALSE, number |-> 0, is_cleared |-> FALSE]

\* Some((number, is_cleared))
SomeInfo(number, is_cleared) ==
    [some |-> TRUE, number |-> number, is_cleared |-> is_cleared]

\* a mark_conflicts_possibilities that records the conflicting number and
\* tags no block
mark_conflicts_possibilities_quiet(b, index, possibility_number_info) ==
    IF /\ possibility_number_info.some
       /\ ~possibility_number_info.is_cleared
       /\ find_mistakes(b, index, possibility_number_info.number) # <<>>
    THEN [board |-> [b EXCEPT ![index].status.poss.conflicting_numbers =
                                  set_number(@, possibility_number_info.number)],
          ret |-> FALSE]
    ELSE [board |-> b, ret |-> TRUE]

\* a mark_conflicts_possibilities that scans for conflicts whether the
\* number was cleared or not
mark_conflicts_possibilities_scan(b, index, possibility_number_info) ==
    IF /\ possibility_number_info.some
       /\ find_mistakes(b, index, possibility_number_info.number) # <<>>
    THEN [board |->
             TagAffected(
                 [b EXCEPT ![index].status.poss.conflicting_numbers =
                               set_number(@, possibility_number_info.number)],
                 find_mistakes(b, index, possibility_number_info.number), 1, NoIndex,
                 AffectedByPossibilities(index, possibility_number_info.number)),
          ret |-> FALSE]
    ELSE [board |-> b, ret |-> TRUE]

\* SudokuBoard::mark_conflicts_possibilities
mark_conflicts_possibilities(b, index, possibility_number_info) ==
    IF possibility_number_info.some
    THEN LET pos == possibility_number_info.number
             is_cleared == possibility_number_info.is_cleared
             \* "Clean up previous conflicts" when one number is left
             cleaned ==
                 IF ~is_cleared /\ count_numbers(b[index].status.poss.numbers) = 1
                 THEN Blocks([f \in BlockIndex |->
                          IF is_affected_by(b[f].conflicting, index)
                          THEN [b[f] EXCEPT !.conflicting = NoConflict]
                          ELSE b[f]])
                 ELSE b
             similar == IF ~is_cleared THEN find_mistakes(cleaned, index, pos) ELSE <<>>
         IN IF similar # <<>>
            THEN [board |->
                     TagAffected(
                         [cleaned EXCEPT ![index].status.poss.conflicting_numbers =
                                             set_number(@, pos)],
                         similar, 1, NoIndex, AffectedByPossibilities(index, pos)),
                  ret |-> FALSE]
            ELSE LET deleted ==
                         [cleaned EXCEPT ![index].status.poss.conflicting_numbers =
                                             del_number(@, pos)]
                 IN [board |->
                        Blocks([f \in BlockIndex |->
                            IF /\ deleted[f].conflicting.kind = "AffectedByPossibilities"
                               /\ deleted[f].conflicting.block_index = index
                               /\ deleted[f].conflicting.number = pos
                            THEN [deleted[f] EXCEPT !.conflicting = NoConflict]
                            ELSE deleted[f]]),
                     ret |-> TRUE]
    ELSE [board |-> b, ret |-> TRUE]

\* SudokuBoard::mark_conflicts: dispatch on the status of the block
mark_conflicts(b, index, possibility_number_info) ==
    CASE b[index].status.kind = "Unresolved" -> mark_conflicts_unresolved(b, index)
      [] b[index].status.kind = "Resolved" -> mark_conflicts_resolved(b, index)
      [] b[index].status.kind = "Possibilities" ->
            mark_conflicts_possibilities(b, index, possibility_number_info)
      [] b[index].status.kind = "Fixed" -> [board |-> b, ret |-> TRUE]

RECURSIVE MarkAllLast(_, _, _)
\* a loop of mark_all_conflicts that keeps the result of the last block only
MarkAllLast(b, verified, k) ==
    IF k > 81 THEN [board |-> b, ret |-> verified]
    ELSE LET index == <<((k - 1) \div 9) + 1, ((k - 1) % 9) + 1>>
             r == CASE b[index].status.kind = "Resolved" -> mark_conflicts_resolved(b, index)
                    [] b[index].status.kind = "Unresolved" -> mark_conflicts_unresolved(b, index)
                    [] OTHER -> [board |-> b, ret |-> TRUE]
         IN IF r.ret
            THEN MarkAllLast(r.board, TRUE, k + 1)
            ELSE MarkAllLast(r.board, FALSE, k + 1)

RECURSIVE MarkAllFrom(_, _, _)
\* the double loop of mark_all_conflicts from the k-th (row, col) on
MarkAllFrom(b, verified, k) ==
    IF k > 81 THEN [board |-> b, ret |-> verified]
    ELSE LET index == <<((k - 1) \div 9) + 1, ((k - 1) % 9) + 1>>
             r == CASE b[index].status.kind = "Resolved" -> mark_conflicts_resolved(b, index)
                    [] b[index].status.kind = "Unresolved" -> mark_conflicts_unresolved(b, index)
                    [] OTHER -> [board |-> b, ret |-> TRUE]
         IN IF r.ret
            THEN MarkAllFrom(r.board, verified, k + 1)
            ELSE MarkAllFrom(r.board, FALSE, k + 1)

\* a mark_all_conflicts that returns its verdict and writes no tag
mark_all_untagged(b) == [board |-> b, ret |-> MarkAllFrom(b, TRUE, 1).ret]

\* SudokuBoard::mark_all_conflicts
mark_all_conflicts(b) == MarkAllFrom(b, TRUE, 1)

RECURSIVE VerifyFrom(_, _)
\* the double loop of verify_board from the k-th (row, col) on
VerifyFrom(b, k) ==
    IF k > 81 THEN TRUE
    ELSE LET index == <<((k - 1) \div 9) + 1, ((k - 1) % 9) + 1>>
         IN IF /\ b[index].status.kind = "Resolved"
               /\ find_mistakes(b, index, b[index].status.number) # <<>>
            THEN FALSE
            ELSE VerifyFrom(b, k + 1)

\* SudokuBoard::verify_board
verify_board(b) == VerifyFrom(b, 1)

\* a resolve_satisfied_blocks that recomputes the candidates whatever
\* mark_all_conflicts returns
resolve_and_update(b) ==
    LET resolved ==
            Blocks([f \in BlockIndex |->
                IF /\ is_possibilities(b[f])
                   /\ count_numbers(b[f].status.poss.numbers) = 1
                THEN [b[f] EXCEPT !.status = Resolved(iter(b[f].status.poss.numbers)[1])]
                ELSE b[f]])
    IN update_possibilities(mark_all_conflicts(resolved).board)

\* a resolve_satisfied_blocks that resolves every block that has candidates
\* to its first candidate
resolve_first_candidate(b) ==
    LET resolved ==
            Blocks([f \in BlockIndex |->
                IF /\ is_possibilities(b[f])
                   /\ count_numbers(b[f].status.poss.numbers) >= 1
                THEN [b[f] EXCEPT !.status = Resolved(iter(b[f].status.poss.numbers)[1])]
                ELSE b[f]])
        marked == mark_all_conflicts(resolved)
    IN IF marked.ret THEN update_possibilities(marked.board) ELSE marked.board

\* a resolve_satisfied_blocks that marks the conflicts before it resolves
\* the blocks with one candidate
resolve_marked_first(b) ==
    LET marked == mark_all_conflicts(b)
        resolved ==
            Blocks([f \in BlockIndex |->
                IF /\ is_possibilities(marked.board[f])
                   /\ count_numbers(marked.board[f].status.poss.numbers) = 1
                THEN [marked.board[f] EXCEPT
                         !.status = Resolved(iter(marked.board[f].status.poss.numbers)[1])]
                ELSE marked.board[f]])
    IN IF marked.ret THEN update_possibilities(resolved) ELSE resolved

\* SudokuBoard::resolve_satisfied_blocks
resolve_satisfied_blocks(b) ==
    LET resolved ==
            Blocks([f \in BlockIndex |->
                IF /\ is_possibilities(b[f])
                   /\ count_numbers(b[f].status.poss.numbers) = 1
                THEN [b[f] EXCEPT !.status = Resolved(iter(b[f].status.poss.numbers)[1])]
                ELSE b[f]])
        marked == mark_all_conflicts(resolved)
    IN IF marked.ret THEN update_possibilities(marked.board) ELSE marked.board

\* a reset that leaves the conflict tags as they are
reset_statuses(b) ==
    Blocks([f \in BlockIndex |->
        [conflicting |-> b[f].conflicting,
         status |-> IF ~is_fixed(b[f]) THEN Unresolved ELSE b[f].status]])

\* SudokuBoard::reset
reset(b) ==
    Blocks([f \in BlockIndex |->
        [conflicting |-> NoConflict,
         status |-> IF ~is_fixed(b[f]) THEN Unresolved ELSE b[f].status]])

(***************************************************************************)
(* strategies: Hidden Single and Naked Pair.  Option<SudokuNumber> is the  *)
(* number, 0 for None.                                                     *)
(***************************************************************************)
RECURSIVE AllPossibleFrom(_, _, _, _)
AllPossibleFrom(b, acc, blocks, k) ==
    IF k > Len(blocks) THEN acc
    ELSE AllPossibleFrom(b,
            IF is_possibilities(b[blocks[k]])
            THEN [i \in Slots |-> acc[i] \/ b[blocks[k]].status.poss.numbers[i]]
            ELSE acc,
            blocks, k + 1)

\* get_all_possible_numbers: every number of every Possibilities block of
\* the iterator is set in the accumulator
get_all_possible_numbers(b, blocks) == AllPossibleFrom(b, NumbersDefault, blocks, 1)

\* Iterator::filter(|x| !(x.index() == block.index()))
Except(container, index) == SelectSeq(container, LAMBDA x : x # index)

\* get_hidden_single(board, row, col, container)
get_hidden_single(b, row, col, container) ==
    IF ~is_possibilities(b[<<row, col>>]) THEN 0
    ELSE LET possibles == b[<<row, col>>].status.poss
             row_pos == get_all_possible_numbers(b, Except(container, <<row, col>>))
             hidden == SelectSeq(iter(possibles.numbers),
                                 LAMBDA f : ~has_number(row_pos, f))
         IN IF Len(hidden) = 1 THEN hidden[1] ELSE 0

\* a hidden_number that tries the square first, then the column, then the row
HiddenNumberSquareFirst(b, row, col) ==
    LET row_hidden == get_hidden_single(b, row, col, get_row(row))
        col_hidden == get_hidden_single(b, row, col, get_col(col))
        square_hidden == get_hidden_single(b, row, col,
                             get_square(square_number(row, col)))
    IN IF square_hidden # 0 THEN square_hidden
       ELSE IF col_hidden # 0 THEN col_hidden
       ELSE row_hidden

\* the hidden_number of one iteration of HiddenSingleStrategy: row first,
\* then column, then square
HiddenNumber(b, row, col) ==
    LET row_hidden == get_hidden_single(b, row, col, get_row(row))
        col_hidden == get_hidden_single(b, row, col, get_col(col))
        square_hidden == get_hidden_single(b, row, col,
                             get_square(square_number(row, col)))
    IN IF row_hidden # 0 THEN row_hidden
       ELSE IF col_hidden # 0 THEN col_hidden
       ELSE square_hidden

\* a source block that is collapsed to the hidden number in a preview too
HiddenSourceAlways(poss, hidden, show_only_effect) ==
    [PossibilitiesDefault EXCEPT !.numbers = set_number(@, hidden)]

\* what one iteration does to the block itself
HiddenSource(poss, hidden, show_only_effect) ==
    IF ~show_only_effect
    THEN [PossibilitiesDefault EXCEPT !.numbers = set_number(@, hidden)]
    ELSE update_strategy_marker(poss, hidden, "HiddenSingle", "Source")

\* an effect on the neighbours that only clears the marker of the number
HiddenEffectedKeeps(poss, hidden, show_only_effect) ==
    IF ~show_only_effect
    THEN clear_strategy_marker(poss, hidden)
    ELSE update_strategy_marker(poss, hidden, "HiddenSingle", "Effected")

\* what one iteration does to a Possibilities block of the row, column or
\* square of the block
HiddenEffected(poss, hidden, show_only_effect) ==
    IF ~show_only_effect
    THEN clear_strategy_marker([poss EXCEPT !.numbers = del_number(@, hidden)], hidden)
    ELSE update_strategy_marker(poss, hidden, "HiddenSingle", "Effected")

\* one iteration of the loop of HiddenSingleStrategy::update_possible_numbers.
\* The three loops over row, column and square visit disjoint blocks.
HiddenSingleStep(b, row, col, show_only_effect) ==
    LET hidden == HiddenNumber(b, row, col)
    IN IF hidden = 0 THEN b
       ELSE Blocks([f \in BlockIndex |->
               IF ~is_possibilities(b[f]) THEN b[f]
               ELSE IF f = <<row, col>>
               THEN [b[f] EXCEPT !.status.poss =
                        HiddenSource(@, hidden, show_only_effect)]
               ELSE IF \/ (f[1] = row /\ f[2] # col)
                       \/ (f[2] = col /\ f[1] # row)
                       \/ /\ square_number(f[1], f[2]) = square_number(row, col)
                          /\ f[2] # col /\ f[1] # row
               THEN [b[f] EXCEPT !.status.poss =
                        HiddenEffected(@, hidden, show_only_effect)]
               ELSE b[f]])

RECURSIVE HiddenSingleFrom(_, _, _)
HiddenSingleFrom(b, show_only_effect, k) ==
    IF k > Len(iter_numbers) THEN b
    ELSE LET after == HiddenSingleStep(b, iter_numbers[k][1], iter_numbers[k][2],
                                      show_only_effect)
         IN IF DOMAIN after = BlockIndex
            THEN HiddenSingleFrom(after, show_only_effect, k + 1)
            ELSE after

\* HiddenSingleStrategy::update_possible_numbers
HiddenSingleStrategy(b, show_only_effect) == HiddenSingleFrom(b, show_only_effect, 1)

\* the key sets of the grouping HashMap of one row: the candidate sets of
\* its Possibilities blocks
GroupKeys(b, row) ==
    {b[<<row, c>>].status.poss.numbers : c \in {k \in 1..9 : is_possibilities(b[<<row, k>>])}}

\* grouping[numbers]: the blocks of the row that hold exactly these candidates
Group(b, row, numbers) ==
    {<<row, c>> : c \in {k \in 1..9 : /\ is_possibilities(b[<<row, k>>])
                                       /\ b[<<row, k>>].status.poss.numbers = numbers}}

RECURSIVE UpdateMarkers(_, _, _, _, _)
\* "for number in numbers.iter() { poss.update_strategy_marker(..) }"
UpdateMarkers(poss, numbers, k, strategy, effect) ==
    IF k > Len(numbers) THEN poss
    ELSE UpdateMarkers(update_strategy_marker(poss, numbers[k], strategy, effect),
                       numbers, k + 1, strategy, effect)

RECURSIVE ClearMarkers(_, _, _)
\* "for number in numbers.iter() { poss.clear_strategy_marker(number) }"
ClearMarkers(poss, numbers, k) ==
    IF k > Len(numbers) THEN poss
    ELSE ClearMarkers(clear_strategy_marker(poss, numbers[k]), numbers, k + 1)

\* a body that treats every block of the row as a block outside the group
NakedPairGroupAll(b, row, numbers, indexes, show_only_effect) ==
    IF count_numbers(numbers) # Cardinality(indexes) THEN b
    ELSE Blocks([f \in BlockIndex |->
            IF f[1] # row \/ ~is_possibilities(b[f]) THEN b[f]
            ELSE [b[f] EXCEPT !.status.poss =
                    IF ~show_only_effect
                    THEN ClearMarkers([@ EXCEPT !.numbers = del_numbers(@, iter(numbers))],
                                      iter(numbers), 1)
                    ELSE UpdateMarkers(@, iter(numbers), 1, "NakedPair", "Effected")]])

\* the body of "for (numbers, indexes) in grouping" of NakedPairStrategy for
\* one entry of the map, on the row as it is when the entry is reached
NakedPairGroup(b, row, numbers, indexes, show_only_effect) ==
    IF count_numbers(numbers) # Cardinality(indexes) THEN b
    ELSE Blocks([f \in BlockIndex |->
            IF f[1] # row \/ ~is_possibilities(b[f]) THEN b[f]
            ELSE IF f \in indexes
            THEN [b[f] EXCEPT !.status.poss =
                    IF show_only_effect
                    THEN UpdateMarkers(@, iter(numbers), 1, "NakedPair", "Source")
                    ELSE ClearMarkers(@, iter(numbers), 1)]
            ELSE [b[f] EXCEPT !.status.poss =
                    IF ~show_only_effect
                    THEN ClearMarkers([@ EXCEPT !.numbers = del_numbers(@, iter(numbers))],
                                      iter(numbers), 1)
                    ELSE UpdateMarkers(@, iter(numbers), 1, "NakedPair", "Effected")]])

RECURSIVE Orders(_)
\* every order in which a HashMap may yield the entries with the given keys
Orders(keys) ==
    IF keys = {} THEN {<<>>}
    ELSE UNION {{<<key>> \o rest : rest \in Orders(keys \ {key})} : key \in keys}

RECURSIVE NakedPairGroups(_, _, _, _, _, _)
\* the loop over the grouping of one row, the entries taken in the given
\* order; the grouping was built from the row as it was before the loop
NakedPairGroups(b, grouped, row, order, k, show_only_effect) ==
    IF k > Len(order) THEN b
    ELSE LET after == NakedPairGroup(b, row, order[k], Group(grouped, row, order[k]),
                                     show_only_effect)
         IN IF DOMAIN after = BlockIndex
            THEN NakedPairGroups(after, grouped, row, order, k + 1, show_only_effect)
            ELSE after

\* the entries of the grouping of a row whose body changes the row
LockedKeys(b, row) ==
    {numbers \in GroupKeys(b, row) :
        count_numbers(numbers) = Cardinality(Group(b, row, numbers))}

\* the boards one iteration of "for index in SudokuNumber::ALL" may leave:
\* one for every order of the map's entries (an entry that is not locked
\* changes nothing, so only the order of the locked ones matters)
NakedPairRow(b, row, show_only_effect) ==
    {NakedPairGroups(b, b, row, order, 1, show_only_effect) :
        order \in Orders(LockedKeys(b, row))}

RECURSIVE NakedPairFrom(_, _, _)
NakedPairFrom(boards, show_only_effect, k) ==
    IF k > Len(ALL) THEN boards
    ELSE NakedPairFrom(UNION {NakedPairRow(b, ALL[k], show_only_effect) : b \in boards},
                       show_only_effect, k + 1)

\* NakedPairStrategy::update_possible_numbers: the set of boards it may
\* leave, the iteration order of the HashMap being unspecified
NakedPairStrategy(b, show_only_effect) == NakedPairFrom({b}, show_only_effect, 1)

\* SudokuBoard::engage_strategy, for the strategies on_game_input engages:
\* the set of boards the call may leave
engage_strategy(b, strategy, show_only_effect) ==
    CASE strategy = "HiddenSingle" -> {HiddenSingleStrategy(b, show_only_effect)}
      [] strategy = "NakedPair" -> NakedPairStrategy(b, show_only_effect)
      [] OTHER -> {b}

\* SudokuBoard::clear_strategy_markers (spec 3: markers are cleared when the
\* strategy is disengaged)
clear_strategy_markers(b) ==
    Blocks([f \in BlockIndex |->
        IF is_possibilities(b[f])
        THEN [b[f] EXCEPT !.status.poss.strategy_markers = {}]
        ELSE b[f]])

(***************************************************************************)
(* Construction                                                            *)
(***************************************************************************)
\* SudokuBoard::default(): every block Unresolved
SudokuBoardDefault == [index \in BlockIndex |-> SudokuBlockNew(Unresolved)]

\* sudoku_board!: a template is written with 0 for "_"; "_" is None (<<>>) and
\* N is Some(N) (<<N>>)
sudoku_board(grid) ==
    [r \in 1..9 |-> [c \in 1..9 |-> IF grid[r][c] = 0 THEN <<>> ELSE <<grid[r][c]>>]]

\* the place of a block in the row-major order the loops of fill_board_u8
\* visit the blocks in
RowMajor(index) == (index[1] - 1) * 9 + index[2]

\* the place of the first value try_into rejects, where the "?" of
\* fill_board_u8 returns Err(()); past the last block if there is none
FirstRejected(numbers) ==
    LET rejected == {RowMajor(index) : index \in
                        {i \in BlockIndex :
                            /\ numbers[i[1]][i[2]] # <<>>
                            /\ ~TryFromUsize(numbers[i[1]][i[2]][1]).ok}}
    IN IF rejected = {} THEN 9 * 9 + 1
       ELSE CHOOSE k \in rejected : \A j \in rejected : k <= j

\* SudokuBoard::fill_board_u8: the board it leaves and whether it returned
\* Ok; the blocks before the first rejected value are written already
fill_board_u8(b, numbers) ==
    LET stop == FirstRejected(numbers)
    IN [board |->
           [index \in BlockIndex |->
               IF RowMajor(index) < stop
               THEN IF numbers[index[1]][index[2]] = <<>>
                    THEN SudokuBlockNew(Unresolved)
                    ELSE SudokuBlockNew(
                             Fixed(TryFromUsize(numbers[index[1]][index[2]][1]).number))
               ELSE b[index]],
        ok |-> stop = 9 * 9 + 1]

\* SudokuBoard::from_u8: Self::default(), then fill_board_u8(numbers).unwrap()
from_u8(numbers) ==
    LET filled == fill_board_u8(SudokuBoardDefault, numbers)
    IN IF filled.ok THEN [kind |-> "Ok", board |-> filled.board]
       ELSE [kind |-> "Panic", board |-> SudokuBoardDefault]

\* the grid of SudokuBoard::default() written as a template
EmptyGrid == [r \in 1..9 |-> [c \in 1..9 |-> 0]]

\* the sample grid of sudoku-samples (sudoku_board! doc comment)
SampleGrid ==
    << <<5, 3, 0, 0, 7, 0, 0, 0, 0>>,
       <<6, 0, 0, 1, 9, 5, 0, 0, 0>>,
       <<0, 9, 8, 0, 0, 0, 0, 6, 0>>,
       <<8, 0, 0, 0, 6, 0, 0, 0, 3>>,
       <<4, 0, 0, 8, 0, 3, 0, 0, 1>>,
       <<7, 0, 0, 0, 2, 0, 0, 0, 6>>,
       <<0, 6, 0, 0, 0, 0, 2, 8, 0>>,
       <<0, 0, 0, 4, 1, 9, 0, 0, 5>>,
       <<0, 0, 0, 0, 8, 0, 0, 7, 9>> >>


\* a solved grid; the templates below blank some of its blocks
SolvedGrid ==
    << <<1, 2, 3, 4, 5, 6, 7, 8, 9>>,
       <<4, 5, 6, 7, 8, 9, 1, 2, 3>>,
       <<7, 8, 9, 1, 2, 3, 4, 5, 6>>,
       <<2, 3, 4, 5, 6, 7, 8, 9, 1>>,
       <<5, 6, 7, 8, 9, 1, 2, 3, 4>>,
       <<8, 9, 1, 2, 3, 4, 5, 6, 7>>,
       <<3, 4, 5, 6, 7, 8, 9, 1, 2>>,
       <<6, 7, 8, 9, 1, 2, 3, 4, 5>>,
       <<9, 1, 2, 3, 4, 5, 6, 7, 8>> >>

\* the blocks the user selects, in the order the bound MaxFocus admits them
ClickOrder == << <<1, 1>>, <<1, 2>>, <<9, 2>>, <<2, 3>> >>

Focus == {ClickOrder[k] : k \in 1..MaxFocus}

\* a grid with the given blocks blanked
Blank(grid, blanks) ==
    [r \in 1..9 |-> [c \in 1..9 |-> IF <<r, c>> \in blanks THEN 0 ELSE grid[r][c]]]

\* the solved grid without two blocks the user can select
AlmostSolvedGrid == Blank(SolvedGrid, {<<1, 1>>, <<1, 2>>})

\* a puzzle of six blanks: (1,1) and (1,4) can hold 1 or 4 and (1,2) can
\* hold 1 or 2
AssistGrid ==
    Blank(SolvedGrid, {<<1, 1>>, <<1, 2>>, <<1, 4>>, <<2, 1>>, <<3, 4>>, <<9, 2>>})

\* a puzzle of six blanks in which collapsing (5,1) to its hidden 5 leaves
\* the 2 of row 5 to (5,7) alone: (4,4) and (5,1) can hold 5, (5,4) can
\* hold 2, 5 or 8 and (5,7), (6,4) and (6,7) can hold 2 or 5
ChainGrid ==
    Blank(SolvedGrid, {<<4, 4>>, <<5, 1>>, <<5, 4>>, <<5, 7>>, <<6, 4>>, <<6, 7>>})

(***************************************************************************)
(* sudoku-bevy main.rs: the state of the application and on_game_input     *)
(***************************************************************************)
\* Strategy: the strategies a Strategy command names
Strategies == {"NakedSingle", "HiddenSingle", "NakedPair"}

\* SelectedBlock::block_index
block_index(sel) == from_index(sel.current[2], sel.current[1])

\* the record kept in last
Command(cmd, index, number, show_only_effect) ==
    [cmd |-> cmd, index |-> index, number |-> number,
     show_only_effect |-> show_only_effect]

\* the state setup_game leaves for a board built from a template grid
InitWith(grids) ==
    /\ \E grid \in grids :
          /\ from_u8(sudoku_board(grid)).kind = "Ok"
          /\ board = from_u8(sudoku_board(grid)).board
          /\ template = sudoku_board(grid)
    /\ built = "Ok"
    /\ number_set = NumbersDefault
    /\ selected = [mode |-> "Resolving", current |-> <<0, 0>>]
    /\ engaging = [strategy |-> "None", showed_effect |-> FALSE]
    /\ board_state = "Playing"
    /\ changed = TRUE
    /\ before = board
    /\ last = Command("None", NoIndex, 0, FALSE)
    /\ steps = 0
    /\ pressed = [strategy |-> "None", show_only_effect |-> FALSE]

\* _update_block: the new status of the block and the BlockUpdateResult
update_block(mode, status, number) ==
    IF mode = "Resolving"
    THEN IF status.kind = "Resolved" /\ status.number = number
         THEN [status |-> Unresolved, result |-> "Cleared", is_cleared |-> FALSE]
         ELSE [status |-> Resolved(number), result |-> "Resolved", is_cleared |-> FALSE]
    ELSE IF status.kind = "Possibilities"
         THEN IF has_number(status.poss.numbers, number)
              THEN LET deleted == [status EXCEPT !.poss.numbers = del_number(@, number)]
                   IN IF count_numbers(deleted.poss.numbers) = 0
                      THEN [status |-> Unresolved, result |-> "Cleared",
                            is_cleared |-> FALSE]
                      ELSE [status |-> deleted, result |-> "Possible",
                            is_cleared |-> TRUE]
              ELSE [status |-> [status EXCEPT !.poss.numbers = set_number(@, number)],
                    result |-> "Possible", is_cleared |-> FALSE]
         ELSE [status |-> Possibilities(PossibilitiesNew(NumbersNew(<<number>>))),
               result |-> "Possible", is_cleared |-> FALSE]

\* a Number handler that does not look at the status of the block first
number_entered_any(b, sel, number) ==
    LET index == block_index(sel)
        result == update_block(sel.mode, b[index].status, number)
        updated == [b EXCEPT ![index].status = result.status]
    IN IF result.result = "Possible"
       THEN mark_conflicts(updated, index, SomeInfo(number, result.is_cleared)).board
       ELSE mark_conflicts(updated, index, NoInfo).board

\* CommandType::Number: the board the handler leaves
number_entered(b, sel, number) ==
    LET index == block_index(sel)
    IN IF b[index].status.kind = "Fixed" THEN b
       ELSE LET result == update_block(sel.mode, b[index].status, number)
                updated == [b EXCEPT ![index].status = result.status]
            IN IF result.result = "Possible"
               THEN mark_conflicts(updated, index,
                        SomeInfo(number, result.is_cleared)).board
               ELSE mark_conflicts(updated, index, NoInfo).board

\* CommandType::ClearBlock: the board the handler leaves
block_cleared(b, sel) ==
    LET index == block_index(sel)
    IN IF b[index].status.kind = "Fixed" THEN b
       ELSE mark_conflicts([b EXCEPT ![index].status = Unresolved], index, NoInfo).board

\* a command that finds the board FinishedVerified returns at once; the
\* board resource was borrowed mutably before the match
Ignored(cmd) ==
    /\ board_state = "FinishedVerified"
    /\ last' = [cmd EXCEPT !.cmd = "Ignored"]
    /\ before' = board
    /\ changed' = TRUE
    /\ steps' = steps + 1
    /\ UNCHANGED <<board, selected, engaging, board_state, template, pressed,
                    built, number_set>>

\* the bookkeeping of a command that was handled
Handled(cmd) ==
    /\ last' = cmd
    /\ before' = board
    /\ changed' = TRUE
    /\ steps' = steps + 1
    /\ pressed' = IF cmd.cmd \in Strategies
                  THEN [strategy |-> cmd.cmd, show_only_effect |-> cmd.show_only_effect]
                  ELSE pressed
    /\ UNCHANGED <<template, built, number_set>>

Number(number) ==
    LET cmd == Command("Number", block_index(selected), number, FALSE)
    IN \/ Ignored(cmd)
       \/ /\ board_state # "FinishedVerified"
          /\ board' = number_entered(board, selected, number)
          /\ Handled(cmd)
          /\ UNCHANGED <<selected, engaging, board_state>>

CalculatePossibilities ==
    LET cmd == Command("CalculatePossibilities", NoIndex, 0, FALSE)
    IN \/ Ignored(cmd)
       \/ /\ board_state # "FinishedVerified"
          /\ board' = update_possibilities(board)
          /\ Handled(cmd)
          /\ UNCHANGED <<selected, engaging, board_state>>

ResolveNakedSingles ==
    LET cmd == Command("ResolveNakedSingles", NoIndex, 0, FALSE)
    IN \/ Ignored(cmd)
       \/ /\ board_state # "FinishedVerified"
          /\ board' = resolve_satisfied_blocks(board)
          /\ Handled(cmd)
          /\ UNCHANGED <<selected, engaging, board_state>>

Reset ==
    /\ board' = reset(board)
    /\ board_state' = "Playing"
    /\ Handled(Command("Reset", NoIndex, 0, FALSE))
    /\ UNCHANGED <<selected, engaging>>

ChangeSelectionMode ==
    /\ selected' = [selected EXCEPT !.mode =
                       IF @ = "Resolving" THEN "Possibilities" ELSE "Resolving"]
    /\ changed' = TRUE
    /\ UNCHANGED <<board, engaging, board_state, before, last, steps, template, pressed,
                    built, number_set>>

ClearBlock ==
    LET cmd == Command("ClearBlock", block_index(selected), 0, FALSE)
    IN \/ Ignored(cmd)
       \/ /\ board_state # "FinishedVerified"
          /\ board' = block_cleared(board, selected)
          /\ Handled(cmd)
          /\ UNCHANGED <<selected, engaging, board_state>>

\* CommandType::Direction: the selection after the move, with wrap-around
moved(current, direction) ==
    CASE direction = "Up" ->
            [current EXCEPT ![2] = IF @ > 0 THEN @ - 1 ELSE 8]
      [] direction = "Down" ->
            [current EXCEPT ![2] = IF @ < 8 THEN @ + 1 ELSE 0]
      [] direction = "Left" ->
            [current EXCEPT ![1] = IF @ > 0 THEN @ - 1 ELSE 8]
      [] direction = "Right" ->
            [current EXCEPT ![1] = IF @ < 8 THEN @ + 1 ELSE 0]

\* the user keeps the selection on the blocks of Focus
Direction(direction) ==
    /\ from_index(moved(selected.current, direction)[2],
                  moved(selected.current, direction)[1]) \in Focus
    /\ selected' = [selected EXCEPT !.current = moved(@, direction)]
    /\ changed' = TRUE
    /\ UNCHANGED <<board, engaging, board_state, before, last, steps, template, pressed,
                    built, number_set>>

\* on_block_clicked: SquareIndex::actual_index is (column, row), zero-based
BlockClicked(index) ==
    /\ selected.current # <<to_index(index[2]), to_index(index[1])>>
    /\ selected' = [selected EXCEPT !.current = <<to_index(index[2]), to_index(index[1])>>]
    /\ UNCHANGED <<board, engaging, board_state, changed, before, last, steps,
                    template, pressed,
                    built, number_set>>

\* a Strategy handler that commits every time the strategy last engaged is
\* engaged again
StrategyOnePress(strategy) ==
    \/ Ignored(Command("Strategy", NoIndex, 0, FALSE))
    \/ /\ board_state # "FinishedVerified"
       /\ LET again == engaging.strategy = strategy
              show_only_effect == ~again
              cleared == IF again THEN board ELSE clear_strategy_markers(board)
          IN /\ engaging' = [strategy |-> strategy, showed_effect |-> show_only_effect]
             /\ board' \in engage_strategy(cleared, strategy, show_only_effect)
             /\ Handled(Command(strategy, NoIndex, 0, show_only_effect))
       /\ UNCHANGED <<selected, board_state>>

\* a Strategy handler that leaves the markers of the strategy engaged before
StrategyKeepsMarkers(strategy) ==
    \/ Ignored(Command("Strategy", NoIndex, 0, FALSE))
    \/ /\ board_state # "FinishedVerified"
       /\ LET again == engaging.strategy = strategy
              show_only_effect == IF again THEN ~engaging.showed_effect ELSE TRUE
          IN /\ engaging' = [strategy |-> strategy, showed_effect |-> show_only_effect]
             /\ board' \in engage_strategy(board, strategy, show_only_effect)
             /\ Handled(Command(strategy, NoIndex, 0, show_only_effect))
       /\ UNCHANGED <<selected, board_state>>

\* CommandType::Strategy: the two-press protocol, then the engagement
Strategy(strategy) ==
    \/ Ignored(Command("Strategy", NoIndex, 0, FALSE))
    \/ /\ board_state # "FinishedVerified"
       /\ LET again == engaging.strategy = strategy
              show_only_effect == IF again THEN ~engaging.showed_effect ELSE TRUE
              cleared == IF again THEN board ELSE clear_strategy_markers(board)
          IN /\ engaging' = [strategy |-> strategy, showed_effect |-> show_only_effect]
             /\ board' \in engage_strategy(cleared, strategy, show_only_effect)
             /\ Handled(Command(strategy, NoIndex, 0, show_only_effect))
       /\ UNCHANGED <<selected, board_state>>

\* a final_verification that finishes every board without an empty block
FinalVerificationComplete ==
    /\ changed
    /\ changed' = FALSE
    /\ board_state' =
          IF \A f \in BlockIndex : ~is_unresolved(board[f]) /\ ~is_possibilities(board[f])
          THEN "FinishedVerified"
          ELSE board_state
    /\ UNCHANGED <<board, selected, engaging, before, last, steps, template, pressed,
                    built, number_set>>

\* final_verification, run in PostUpdate when the boards resource changed
FinalVerification ==
    /\ changed
    /\ changed' = FALSE
    /\ board_state' =
          IF /\ \A f \in BlockIndex : ~is_unresolved(board[f]) /\ ~is_possibilities(board[f])
             /\ verify_board(board)
          THEN "FinishedVerified"
          ELSE board_state
    /\ UNCHANGED <<board, selected, engaging, before, last, steps, template, pressed,
                    built, number_set>>

\* SudokuBoard::from_u8 called with a raw grid; a panic leaves the caller
\* without a new board
FromU8(numbers) ==
    /\ LET result == from_u8(numbers)
       IN /\ built' = result.kind
          /\ board' = IF result.kind = "Ok" THEN result.board ELSE board
    /\ template' = numbers
    /\ last' = Command("from_u8", NoIndex, 0, FALSE)
    /\ before' = board
    /\ steps' = steps + 1
    /\ UNCHANGED <<selected, engaging, board_state, changed, pressed, number_set>>

\* SudokuBoard::fill_board_u8 called on the board with a raw grid
FillBoardU8(numbers) ==
    /\ LET result == fill_board_u8(board, numbers)
       IN /\ built' = IF result.ok THEN "Ok" ELSE "Err"
          /\ board' = result.board
    /\ template' = numbers
    /\ last' = Command("fill_board_u8", NoIndex, 0, FALSE)
    /\ before' = board
    /\ steps' = steps + 1
    /\ UNCHANGED <<selected, engaging, board_state, changed, pressed, number_set>>

\* SudokuNumbers::set_number called on the SudokuNumbers value
SetNumber(number) ==
    /\ number_set' = set_number(number_set, number)
    /\ last' = Command("set_number", NoIndex, number, FALSE)
    /\ UNCHANGED <<board, selected, engaging, board_state, changed, before, steps,
                    template, pressed, built>>

\* SudokuNumbers::del_number called on the SudokuNumbers value
DelNumber(number) ==
    /\ number_set' = del_number(number_set, number)
    /\ last' = Command("del_number", NoIndex, number, FALSE)
    /\ UNCHANGED <<board, selected, engaging, board_state, changed, before, steps,
                    template, pressed, built>>

\* the blocks a raw grid gives a value, in the order the bound MaxRawCells
\* admits them
RawOrder == << <<1, 1>>, <<1, 2>>, <<2, 1>> >>

RawFocus == {RawOrder[k] : k \in 1..MaxRawCells}

\* Option<u8>: None and Some(0) .. Some(MaxRaw)
RawValues == {<<>>} \cup {<<n>> : n \in 0..MaxRaw}

\* the grids [[Option<u8>; 9]; 9] given to the construction entry points
RawGrids ==
    {[r \in 1..9 |-> [c \in 1..9 |->
         IF <<r, c>> \in RawFocus THEN g[<<r, c>>] ELSE <<>>]] :
     g \in [RawFocus -> RawValues]}

Keys == 1..MaxKey

Directions == {"Up", "Down", "Left", "Right"}

(***************************************************************************)
(* Specifications                                                          *)
(***************************************************************************)
\* an editing session: the user moves the selection and enters or clears
\* numbers and candidates
EditInit == InitWith({EmptyGrid, AlmostSolvedGrid})

EditNext ==
    \/ steps < MaxEdits /\ \E index \in Focus : BlockClicked(index)
    \/ steps < MaxEdits /\ \E direction \in Directions : Direction(direction)
    \/ steps < MaxEdits /\ ChangeSelectionMode
    \/ FinalVerification
    \/ steps < MaxEdits /\ \E number \in Keys : Number(number)
    \/ steps < MaxEdits /\ ClearBlock

EditSpec == EditInit /\ [][EditNext]_vars

\* a solving session: the user only issues the commands that act on the
\* whole board
SolveInit == InitWith({AlmostSolvedGrid, AssistGrid})

SolveNext ==
    \/ FinalVerification
    \/ steps < MaxCmds /\ CalculatePossibilities
    \/ steps < MaxCmds /\ ResolveNakedSingles
    \/ steps < MaxCmds /\ Reset
    \/ steps < MaxCmds /\ \E strategy \in Strategies : Strategy(strategy)

SolveSpec == SolveInit /\ [][SolveNext]_vars

\* an assisted session: the user asks for the candidates, pencils candidates
\* in and out and engages the strategies; numbers are only entered with the
\* selection mode on Possibilities
AssistInit == InitWith({AssistGrid})

AssistNext ==
    \/ steps < MaxCmds /\ \E index \in Focus : BlockClicked(index)
    \/ steps < MaxCmds /\ ChangeSelectionMode
    \/ FinalVerification
    \/ /\ steps < MaxCmds
       /\ selected.mode = "Possibilities"
       /\ \E number \in Keys : Number(number)
    \/ steps < MaxCmds /\ CalculatePossibilities
    \/ steps < MaxCmds /\ ResolveNakedSingles
    \/ steps < MaxCmds /\ \E strategy \in {"HiddenSingle", "NakedPair"} : Strategy(strategy)

AssistSpec == AssistInit /\ [][AssistNext]_vars

\* a construction session: a caller of the library builds boards from raw
\* grids
BuildInit == InitWith({EmptyGrid})

BuildNext ==
    \/ steps < MaxBuilds /\ \E numbers \in RawGrids : FromU8(numbers)
    \/ steps < MaxBuilds /\ \E numbers \in RawGrids : FillBoardU8(numbers)

BuildSpec == BuildInit /\ [][BuildNext]_vars

\* a caller of the library inserts numbers into and removes numbers from a
\* SudokuNumbers value
NumbersInit == InitWith({EmptyGrid})

NumbersNext ==
    \/ \E number \in SudokuNumber : SetNumber(number)
    \/ \E number \in SudokuNumber : DelNumber(number)

NumbersSpec == NumbersInit /\ [][NumbersNext]_vars

\* an editing session in which the user also asks for the blocks with one
\* candidate to be resolved
ResolveInit == InitWith({AlmostSolvedGrid})

ResolveNext ==
    \/ steps < MaxResolves /\ \E index \in Focus : BlockClicked(index)
    \/ steps < MaxResolves /\ ChangeSelectionMode
    \/ FinalVerification
    \/ steps < MaxResolves /\ \E number \in Keys : Number(number)
    \/ steps < MaxResolves /\ ClearBlock
    \/ steps < MaxResolves /\ ResolveNakedSingles

ResolveSpec == ResolveInit /\ [][ResolveNext]_vars

\* a solving session on the puzzle of the chained hidden singles
ChainInit == InitWith({ChainGrid})

ChainNext ==
    \/ FinalVerification
    \/ steps < MaxCmds /\ CalculatePossibilities
    \/ steps < MaxCmds /\ ResolveNakedSingles
    \/ steps < MaxCmds /\ Reset
    \/ steps < MaxCmds /\ \E strategy \in Strategies : Strategy(strategy)

ChainSpec == ChainInit /\ [][ChainNext]_vars

\* a session in which the user fills the last two blocks of a puzzle and
\* goes on giving commands
FinishInit == InitWith({AlmostSolvedGrid})

FinishNext ==
    \/ steps < MaxFinish /\ \E index \in Focus : BlockClicked(index)
    \/ steps < MaxFinish /\ ChangeSelectionMode
    \/ FinalVerification
    \/ steps < MaxFinish /\ \E number \in Keys : Number(number)
    \/ steps < MaxFinish /\ ClearBlock
    \/ steps < MaxFinish /\ CalculatePossibilities
    \/ steps < MaxFinish /\ ResolveNakedSingles
    \/ steps < MaxFinish /\ Reset
    \/ steps < MaxFinish /\ \E strategy \in Strategies : Strategy(strategy)

FinishSpec == FinishInit /\ [][FinishNext]_vars

\* a session of every command
Init == InitWith({EmptyGrid, AlmostSolvedGrid})

Next ==
    \/ steps < MaxSteps /\ \E index \in Focus : BlockClicked(index)
    \/ steps < MaxSteps /\ \E direction \in Directions : Direction(direction)
    \/ steps < MaxSteps /\ ChangeSelectionMode
    \/ FinalVerification
    \/ steps < MaxSteps /\ \E number \in Keys : Number(number)
    \/ steps < MaxSteps /\ ClearBlock
    \/ steps < MaxSteps /\ CalculatePossibilities
    \/ steps < MaxSteps /\ ResolveNakedSingles
    \/ steps < MaxSteps /\ Reset
    \/ steps < MaxSteps /\ \E strategy \in Strategies : Strategy(strategy)

Spec == Init /\ [][Next]_vars

(***************************************************************************)
(* Properties                                                              *)
(***************************************************************************)
\* two blocks share a row, a column or a 3x3 box (a block is its own peer)
SharesUnit(f, g) ==
    \/ f[1] = g[1]
    \/ f[2] = g[2]
    \/ /\ (f[1] - 1) \div 3 = (g[1] - 1) \div 3
       /\ (f[2] - 1) \div 3 = (g[2] - 1) \div 3

\* the block holds a value: it is Given (Fixed) or Resolved
HasValue(block) == block.status.kind \in {"Fixed", "Resolved"}

\* C1: for every block index, get_block_possible_numbers returns exactly the
\* numbers 1..9 that no Given or Resolved block of the index's row, column
\* and box holds
C1_PossibleNumbers ==
    \A index \in BlockIndex :
        Members(get_block_possible_numbers(board, index)) =
            SudokuNumber \ {board[f].status.number :
                               f \in {g \in BlockIndex :
                                         SharesUnit(g, index) /\ HasValue(board[g])}}

\* a block without a value that has a Given peer and a Resolved peer of
\* another number: some numbers are excluded and some are left
C1_Witness ==
    \E index \in BlockIndex :
        /\ ~HasValue(board[index])
        /\ \E f, g \in BlockIndex :
              /\ SharesUnit(f, index) /\ is_fixed(board[f])
              /\ SharesUnit(g, index) /\ is_resolved(board[g])
              /\ board[g].status.number \notin
                    {board[h].status.number :
                        h \in {k \in BlockIndex : SharesUnit(k, index) /\ is_fixed(board[k])}}
        /\ Members(get_block_possible_numbers(board, index)) \notin {{}, SudokuNumber}

\* the numbers the Given and Resolved blocks of the row, column and box of
\* the index hold
PeerValues(b, index) ==
    {b[f].status.number :
        f \in {g \in BlockIndex : SharesUnit(g, index) /\ HasValue(b[g])}}

RowOthers(b, c) == {f \in BlockIndex : f # c /\ f[1] = c[1] /\ is_possibilities(b[f])}

ColOthers(b, c) == {f \in BlockIndex : f # c /\ f[2] = c[2] /\ is_possibilities(b[f])}

BoxOthers(b, c) ==
    {f \in BlockIndex : /\ f # c
                        /\ (f[1] - 1) \div 3 = (c[1] - 1) \div 3
                        /\ (f[2] - 1) \div 3 = (c[2] - 1) \div 3
                        /\ is_possibilities(b[f])}

\* the candidates of a block
Candidates(b, f) == Members(b[f].status.poss.numbers)

\* the candidates of c that none of the other blocks holds
Unshared(b, c, others) ==
    {n \in Candidates(b, c) : \A f \in others : n \notin Candidates(b, f)}

\* c is a CandidateSet block one of whose row, column and box has exactly
\* one candidate of c to itself
HasHiddenSingle(b, c) ==
    /\ is_possibilities(b[c])
    /\ \/ Cardinality(Unshared(b, c, RowOthers(b, c))) = 1
       \/ Cardinality(Unshared(b, c, ColOthers(b, c))) = 1
       \/ Cardinality(Unshared(b, c, BoxOthers(b, c))) = 1

\* f comes before c in the row-major order of the board
Precedes(f, c) == f[1] < c[1] \/ (f[1] = c[1] /\ f[2] < c[2])

\* the last command committed the Hidden Single strategy
HiddenSingleCommitted == last.cmd = "HiddenSingle" /\ ~last.show_only_effect

\* c holds exactly {u, v} and no other CandidateSet block of its column
\* holds v
ColumnCase(b, c, u, v) ==
    /\ is_possibilities(b[c])
    /\ u # v
    /\ Candidates(b, c) = {u, v}
    /\ \A f \in ColOthers(b, c) : v \notin Candidates(b, f)

\* c is left with exactly {v}, and v with no other CandidateSet block of
\* the row, column and box of c
Collapsed(b, c, v) ==
    /\ is_possibilities(b[c])
    /\ Candidates(b, c) = {v}
    /\ \A f \in RowOthers(b, c) \cup ColOthers(b, c) \cup BoxOthers(b, c) :
          v \notin Candidates(b, f)

\* C3 as stated: committing Hidden Single collapses every block of the
\* column case to {v}
C3_AsStated ==
    HiddenSingleCommitted =>
        \A c \in BlockIndex : \A u, v \in SudokuNumber :
            ColumnCase(before, c, u, v) => Collapsed(board, c, v)

\* C3: committing Hidden Single collapses a block c of the column case to
\* {v} and removes v from the other CandidateSet blocks of its row, column
\* and box, provided that another CandidateSet block of the column holds u,
\* that the row of c does not leave u alone to c (another CandidateSet block
\* of the row holds u, or none holds v), and that no block before c in
\* row-major order has a hidden single
C3_HiddenSingleColumn ==
    HiddenSingleCommitted =>
        \A c \in BlockIndex : \A u, v \in SudokuNumber :
            /\ ColumnCase(before, c, u, v)
            /\ \E f \in ColOthers(before, c) : u \in Candidates(before, f)
            /\ \/ \E f \in RowOthers(before, c) : u \in Candidates(before, f)
               \/ \A f \in RowOthers(before, c) : v \notin Candidates(before, f)
            /\ \A f \in BlockIndex : Precedes(f, c) => ~HasHiddenSingle(before, f)
            => Collapsed(board, c, v)

\* Hidden Single was committed on a board with such a block c, one of whose
\* neighbours held v
C3_Witness ==
    /\ HiddenSingleCommitted
    /\ \E c \in BlockIndex : \E u, v \in SudokuNumber :
          /\ ColumnCase(before, c, u, v)
          /\ \E f \in ColOthers(before, c) : u \in Candidates(before, f)
          /\ \E f \in RowOthers(before, c) : u \in Candidates(before, f)
          /\ \A f \in BlockIndex : Precedes(f, c) => ~HasHiddenSingle(before, f)
          /\ \E f \in RowOthers(before, c) : v \in Candidates(before, f)
          /\ Collapsed(board, c, v)

\* the CandidateSet blocks of the row that hold exactly the given numbers
BlocksHolding(b, row, numbers) ==
    {f \in BlockIndex : f[1] = row /\ is_possibilities(b[f]) /\ Candidates(b, f) = numbers}

\* the last command committed the Naked Pair strategy
NakedPairCommitted == last.cmd = "NakedPair" /\ ~last.show_only_effect

\* the two-number sets that exactly two CandidateSet blocks of the row hold
PairSets(b, row) ==
    {pair \in {Candidates(b, f) : f \in {g \in BlockIndex : g[1] = row /\ is_possibilities(b[g])}} :
        /\ Cardinality(pair) = 2
        /\ Cardinality(BlocksHolding(b, row, pair)) = 2}

\* the numbers of the pair are with no CandidateSet block of the row but
\* the blocks of the pair
PairCleared(b, row, blocks, pair) ==
    \A f \in BlockIndex :
        f[1] = row /\ f \notin blocks /\ is_possibilities(b[f])
            => Candidates(b, f) \cap pair = {}

\* the blocks of the pair hold exactly the numbers of the pair
PairKept(b, blocks, pair) ==
    \A f \in blocks : is_possibilities(b[f]) /\ Candidates(b, f) = pair

\* another set of n numbers that exactly n CandidateSet blocks of the row
\* hold shares a number with the pair
OverlappingGroup(b, row, pair) ==
    \E f \in BlockIndex :
        /\ f[1] = row
        /\ is_possibilities(b[f])
        /\ Candidates(b, f) # pair
        /\ Candidates(b, f) \cap pair # {}
        /\ Cardinality(BlocksHolding(b, row, Candidates(b, f))) =
              Cardinality(Candidates(b, f))

\* C4 as stated: committing Naked Pair clears the numbers {x, y} of a pair
\* from the rest of its row and the pair keeps {x, y}, whatever the other
\* blocks of the row hold
C4_AsStated ==
    NakedPairCommitted =>
        \A row \in SudokuNumber : \A pair \in PairSets(before, row) :
            /\ PairCleared(board, row, BlocksHolding(before, row, pair), pair)
            /\ PairKept(board, BlocksHolding(before, row, pair), pair)

\* C4: committing Naked Pair on a row where exactly two blocks hold {x, y}
\* leaves x and y with no other CandidateSet block of the row; the two
\* blocks still hold exactly {x, y} provided no other set of n numbers held
\* by exactly n blocks of the row shares a number with {x, y}
C4_NakedPair ==
    NakedPairCommitted =>
        \A row \in SudokuNumber : \A pair \in PairSets(before, row) :
            /\ PairCleared(board, row, BlocksHolding(before, row, pair), pair)
            /\ ~OverlappingGroup(before, row, pair)
                   => PairKept(board, BlocksHolding(before, row, pair), pair)

\* Naked Pair was committed on a row with a pair and a third block that held
\* one of the pair's numbers; the third block lost it and the pair is kept
C4_Witness ==
    /\ NakedPairCommitted
    /\ \E row \in SudokuNumber : \E pair \in PairSets(before, row) :
          /\ ~OverlappingGroup(before, row, pair)
          /\ \E f \in BlockIndex :
                /\ f[1] = row
                /\ f \notin BlocksHolding(before, row, pair)
                /\ is_possibilities(before[f])
                /\ Candidates(before, f) \cap pair # {}
                /\ Candidates(board, f) \cap pair = {}
          /\ PairKept(board, BlocksHolding(before, row, pair), pair)

\* the block holds the number v as a Given or a Resolved block
Holds(b, f, v) == HasValue(b[f]) /\ b[f].status.number = v

\* the last command was a Number command that left the selected block b
\* Resolved to v, a being the only block that held v before, a peer of b
\* and Resolved
SecondOfDuplicate(a, b, v) ==
    /\ last.cmd = "Number" /\ last.index = b /\ last.number = v
    /\ board[b].status = Resolved(v)
    /\ a # b
    /\ SharesUnit(a, b)
    /\ before[a].status = Resolved(v)
    /\ \A f \in BlockIndex \ {a} : ~Holds(before, f, v)

\* C5: when the user resolves b to the number v that only the Resolved peer
\* a holds, b (written second) is tagged Source and a (written first) is
\* tagged AffectedBy(b)
C5_DuplicateTags ==
    \A a, b \in Focus : \A v \in Keys :
        SecondOfDuplicate(a, b, v) =>
            /\ board[b].conflicting = ConflictSource
            /\ board[a].conflicting = AffectedBy(b)

\* the user resolved two peers to the same number, one after the other, and
\* both are tagged
C5_Witness ==
    \E a, b \in Focus : \E v \in Keys :
        /\ SecondOfDuplicate(a, b, v)
        /\ before[a].conflicting = NoConflict
        /\ board[b].conflicting = ConflictSource
        /\ board[a].conflicting = AffectedBy(b)

\* the two peers a and b are Resolved to the same number that no other block
\* holds, a (written first) tagged AffectedBy(b) and b (written second)
\* tagged Source
TaggedDuplicate(b_, a, b) ==
    /\ a # b
    /\ SharesUnit(a, b)
    /\ is_resolved(b_[a]) /\ is_resolved(b_[b])
    /\ b_[a].status.number = b_[b].status.number
    /\ \A f \in BlockIndex \ {a, b} : ~Holds(b_, f, b_[a].status.number)
    /\ b_[a].conflicting = AffectedBy(b)
    /\ b_[b].conflicting = ConflictSource

\* C6 as stated: clearing either block of a tagged duplicate leaves neither
\* block with a conflict tag
C6_AsStated ==
    last.cmd = "ClearBlock" =>
        \A a, b \in Focus :
            TaggedDuplicate(before, a, b) /\ last.index \in {a, b}
                => /\ board[a].conflicting = NoConflict
                   /\ board[b].conflicting = NoConflict

\* Option<(SudokuNumber, bool)>: the candidate_change arguments tried
Infos == {NoInfo} \cup {SomeInfo(number, is_cleared) : number \in Keys, is_cleared \in BOOLEAN}

\* C7: mark_conflicts is idempotent: on every board, for every block the user
\* can select and every candidate_change, a second call returns the same
\* value and leaves every block as the first call left it
C7_Idempotent ==
    \A index \in Focus : \A info \in Infos :
        mark_conflicts(mark_conflicts(board, index, info).board, index, info)
            = mark_conflicts(board, index, info)

\* a board on which a call changes tags, and one on which it records a
\* conflicting candidate
C7_Witness ==
    \E index \in Focus : \E info \in Infos :
        /\ mark_conflicts(board, index, info).board # board
        /\ ~mark_conflicts(board, index, info).ret
        /\ \E f \in BlockIndex : board[f].conflicting.kind = "AffectedByPossibilities"

\* a Resolved block shares its number with another Resolved block of its
\* row, column or box
ResolvedPair(b) ==
    \E f \in {h \in BlockIndex : is_resolved(b[h])} :
        \E g \in BlockIndex :
            /\ f # g
            /\ SharesUnit(f, g)
            /\ is_resolved(b[g])
            /\ b[f].status.number = b[g].status.number

\* a Resolved block shares its number with a Given block of its row, column
\* or box
ResolvedGivenPair(b) ==
    \E f \in {h \in BlockIndex : is_resolved(b[h])} :
        \E g \in BlockIndex :
            /\ SharesUnit(f, g)
            /\ is_fixed(b[g])
            /\ b[f].status.number = b[g].status.number

\* C8 as stated: verify_board is false exactly when two Resolved blocks of a
\* row, column or box share a number
C8_AsStated == ~verify_board(board) <=> ResolvedPair(board)

\* C8: verify_board is false exactly when a Resolved block shares its number
\* with another Resolved block or with a Given block of its row, column or
\* box
C8_VerifyFalse ==
    ~verify_board(board) <=> (ResolvedPair(board) \/ ResolvedGivenPair(board))

\* verify_board is false on a board whose only duplicate is between a
\* Resolved and a Given block
C8_Witness ==
    /\ ~verify_board(board)
    /\ ResolvedGivenPair(board)
    /\ ~ResolvedPair(board)

\* the number of other Given or Resolved blocks of the row, column and box
\* of f that hold the number of f
Duplicates(b, f) ==
    Cardinality({g \in BlockIndex :
                    g # f /\ SharesUnit(g, f) /\ Holds(b, g, b[f].status.number)})

\* C9: verify_board is true exactly when every Resolved block has zero other
\* Given or Resolved blocks of its row, column and box with its number, and
\* the step that calls it leaves every block as it was
C9_VerifyTrue ==
    [][/\ verify_board(board) <=>
              \A f \in BlockIndex : is_resolved(board[f]) => Duplicates(board, f) = 0
       /\ FinalVerification => board' = board]_vars

\* final_verification found a full board with Resolved blocks verified
C9_Witness ==
    /\ board_state = "FinishedVerified"
    /\ verify_board(board)
    /\ \E f \in BlockIndex : is_resolved(board[f])
    /\ ~changed

\* the last command ran resolve_satisfied_blocks on a board without a
\* CandidateSet block
ResolvedWithoutCandidates ==
    /\ last.cmd = "ResolveNakedSingles"
    /\ \A f \in BlockIndex : ~is_possibilities(before[f])

\* a Resolved block of the board shares its number with a Given or Resolved
\* block of its row, column or box
SomeMistake(b) ==
    \E f \in {h \in BlockIndex : is_resolved(b[h])} : Duplicates(b, f) > 0

\* C10 as stated: resolve_satisfied_blocks on a board without a CandidateSet
\* block leaves the status and the conflict tag of every block as they were
C10_AsStated ==
    ResolvedWithoutCandidates =>
        \A f \in BlockIndex :
            /\ board[f].status = before[f].status
            /\ board[f].conflicting = before[f].conflicting

\* C10: resolve_satisfied_blocks on a board without a CandidateSet block
\* resolves no block and leaves every Given and Resolved block its status;
\* the Undetermined blocks stay Undetermined when a Resolved block shares its
\* number with a Given or Resolved peer, and otherwise each becomes the
\* CandidateSet of the numbers no Given or Resolved peer holds
C10_ResolveWithoutCandidates ==
    ResolvedWithoutCandidates =>
        \A f \in BlockIndex :
            IF HasValue(before[f]) \/ SomeMistake(before)
            THEN board[f].status = before[f].status
            ELSE /\ is_possibilities(board[f])
                 /\ Candidates(board, f) = SudokuNumber \ PeerValues(before, f)
                 /\ Members(board[f].status.poss.conflicting_numbers) = {}
                 /\ board[f].status.poss.strategy_markers = {}

\* resolve_satisfied_blocks ran on a board of Given, Resolved and
\* Undetermined blocks and no CandidateSet block, where a Resolved block
\* shares its number with a peer
C10_Witness ==
    /\ ResolvedWithoutCandidates
    /\ SomeMistake(before)
    /\ \E f \in BlockIndex : is_unresolved(before[f]) /\ is_unresolved(board[f])
    /\ \E f \in BlockIndex : is_fixed(before[f])

\* C11: after a Reset command the board equals the board freshly constructed
\* from the template the session started from: every Given block keeps its
\* number, every other block is Undetermined and no block carries a conflict
\* tag
C11_ResetRoundTrip ==
    last.cmd = "Reset" =>
        /\ board = from_u8(template).board
        /\ \A f \in BlockIndex :
              /\ is_fixed(before[f]) => board[f].status = before[f].status
              /\ ~is_fixed(before[f]) => is_unresolved(board[f])
              /\ board[f].conflicting = NoConflict

\* Reset ran on a board where a Resolved block and a Given block carried
\* conflict tags
C11_Witness ==
    /\ last.cmd = "Reset"
    /\ \E f \in BlockIndex : is_resolved(before[f]) /\ before[f].conflicting # NoConflict
    /\ \E f \in BlockIndex : is_fixed(before[f]) /\ before[f].conflicting # NoConflict
    /\ board = from_u8(template).board

\* every block the template gives a number is the Given block of that number
GivenKept(b) ==
    \A f \in BlockIndex :
        template[f[1]][f[2]] # <<>> => b[f].status = Fixed(template[f[1]][f[2]][1])

\* C12: every block that was Given(v) at construction is Given(v) after
\* every command, and a Number or ClearBlock command on a selected Given
\* block leaves the whole board as it was
C12_GivenImmutable ==
    [][/\ GivenKept(board) /\ GivenKept(board')
       /\ (/\ last'.cmd \in {"Number", "ClearBlock"}
           /\ steps' = steps + 1
           /\ is_fixed(board[last'.index])) => board' = board]_vars

\* a ClearBlock command found a Given block selected, on a board the user
\* had entered a number in
C12_Witness ==
    /\ last.cmd = "ClearBlock"
    /\ is_fixed(before[last.index])
    /\ board = before
    /\ \E f \in BlockIndex : is_resolved(board[f])

\* C13 as stated: no Given block carries a conflict tag
C13_AsStated ==
    \A f \in BlockIndex : is_fixed(board[f]) => board[f].conflicting = NoConflict

\* C14 as stated: the conflicting_numbers of every CandidateSet block are
\* among its numbers
C14_AsStated ==
    \A f \in BlockIndex :
        is_possibilities(board[f]) =>
            Members(board[f].status.poss.conflicting_numbers)
                \subseteq Members(board[f].status.poss.numbers)

\* the step is a Strategy command that was processed
StrategyProcessed == steps' = steps + 1 /\ last'.cmd \in Strategies

\* the previous processed Strategy command was a preview of this strategy
PreviewedBefore(strategy) ==
    pressed.strategy = strategy /\ pressed.show_only_effect

\* the candidate sets of the board: no block stops being a CandidateSet and
\* every CandidateSet keeps its candidates
SameCandidates(b, c) ==
    \A f \in BlockIndex :
        /\ is_possibilities(b[f]) <=> is_possibilities(c[f])
        /\ is_possibilities(b[f]) => Candidates(b, f) = Candidates(c, f)

\* C15: a processed Strategy command for S runs in commit mode exactly when
\* the previous processed Strategy command was a preview of S; otherwise it
\* runs in preview mode and removes no candidate
C15_TwoPress ==
    [][StrategyProcessed =>
          /\ ~last'.show_only_effect <=> PreviewedBefore(last'.cmd)
          /\ board' \in engage_strategy(
                            IF pressed.strategy = last'.cmd THEN board
                            ELSE clear_strategy_markers(board),
                            last'.cmd, ~PreviewedBefore(last'.cmd))
          /\ ~PreviewedBefore(last'.cmd) => SameCandidates(board, board')]_vars

\* the fourth command of the session is a Hidden Single commit that removed
\* candidates
C15_Witness ==
    /\ last.cmd = "HiddenSingle" /\ ~last.show_only_effect
    /\ pressed = [strategy |-> "HiddenSingle", show_only_effect |-> FALSE]
    /\ ~SameCandidates(before, board)
    /\ steps = MaxCmds

\* the markers of a block (none for a block that is not a CandidateSet)
Markers(b, f) ==
    IF is_possibilities(b[f]) THEN b[f].status.poss.strategy_markers ELSE {}

\* the step commits the strategy whose preview was the last command
CommitAfterPreview ==
    /\ last.cmd \in {"HiddenSingle", "NakedPair"}
    /\ last.show_only_effect
    /\ StrategyProcessed
    /\ last'.cmd = last.cmd
    /\ ~last'.show_only_effect

\* C16 as stated: after the commit that follows a preview on the unchanged
\* board no marker of the preview is left on any block
C16_AsStated ==
    [][CommitAfterPreview =>
          \A f \in BlockIndex : Markers(board', f) \cap Markers(board, f) = {}]_vars

\* C17: a processed Strategy command for a strategy T that is not the one
\* last engaged leaves the board a preview of T on the board without its
\* markers: every marker names T and every candidate set is as it was
C17_OtherStrategy ==
    [][(StrategyProcessed /\ pressed.strategy # last'.cmd) =>
          /\ last'.show_only_effect
          /\ board' \in engage_strategy(clear_strategy_markers(board), last'.cmd, TRUE)
          /\ \A f \in BlockIndex : \A m \in Markers(board', f) : m.strategy = last'.cmd
          /\ SameCandidates(board, board')]_vars

\* Naked Pair was engaged on a board that carried the markers of a Hidden
\* Single preview, and placed markers of its own
C17_Witness ==
    /\ last.cmd = "NakedPair"
    /\ last.show_only_effect
    /\ \E f \in BlockIndex : \E m \in Markers(before, f) : m.strategy = "HiddenSingle"
    /\ \E f \in BlockIndex : \E m \in Markers(board, f) : m.strategy = "NakedPair"
    /\ \A f \in BlockIndex : \A m \in Markers(board, f) : m.strategy = "NakedPair"

\* C18 as stated: a step that removes the candidate v from a block that stays
\* a CandidateSet leaves the block no marker keyed by v
C18_AsStated ==
    [][\A f \in BlockIndex :
          (is_possibilities(board[f]) /\ is_possibilities(board'[f])) =>
              \A v \in Candidates(board, f) \ Candidates(board', f) :
                  \A m \in Markers(board', f) : m.number # v]_vars

\* C19 as stated: a processed Hidden Single or Naked Pair command leaves the
\* board the strategy leaves when it is run on the recomputed candidates
C19_AsStated ==
    last.cmd \in {"HiddenSingle", "NakedPair"} =>
        board \in engage_strategy(update_possibilities(before), last.cmd,
                                  last.show_only_effect)

\* the last command was a preview of Hidden Single or Naked Pair
Previewed ==
    last.cmd \in {"HiddenSingle", "NakedPair"} /\ last.show_only_effect

\* C20: a preview of Hidden Single or Naked Pair leaves every block its
\* status variant, its value or candidate set, its candidate-conflict set
\* and its conflict tag; only markers of CandidateSet blocks may differ
C20_PreviewFrame ==
    Previewed =>
        \A f \in BlockIndex :
            /\ board[f].conflicting = before[f].conflicting
            /\ IF is_possibilities(before[f])
               THEN /\ is_possibilities(board[f])
                    /\ board[f].status.poss.numbers = before[f].status.poss.numbers
                    /\ board[f].status.poss.conflicting_numbers
                           = before[f].status.poss.conflicting_numbers
               ELSE board[f].status = before[f].status

\* a preview placed markers on a board with a conflicting candidate and a
\* conflict tag
C20_Witness ==
    /\ Previewed
    /\ \E f \in BlockIndex : Markers(board, f) # Markers(before, f)
    /\ \E f \in BlockIndex :
          /\ is_possibilities(board[f])
          /\ Members(board[f].status.poss.conflicting_numbers) # {}
    /\ \E f \in BlockIndex : board[f].conflicting # NoConflict

(***************************************************************************)
(* C21: after any sequence of number entries (in either selection mode)    *)
(* and clears, no block whose status is Unresolved or Possibilities        *)
(* carries a Source or AffectedBy(_) conflict tag.                         *)
(***************************************************************************)
C21_AsStated ==
    \A f \in BlockIndex :
        (is_unresolved(board[f]) \/ is_possibilities(board[f])) =>
            board[f].conflicting.kind \notin {"Source", "AffectedBy"}

(***************************************************************************)
(* C22: building a board from a grid of optional raw values of which one   *)
(* lies outside 1..9 ends with an error result given to the caller, never  *)
(* with a panic, both for fill_board_u8 and for from_u8.                   *)
(***************************************************************************)
OutOfRange(numbers) ==
    \E r \in 1..9, c \in 1..9 :
        numbers[r][c] # <<>> /\ numbers[r][c][1] \notin 1..9

C22_AsStated ==
    (last.cmd \in {"from_u8", "fill_board_u8"} /\ OutOfRange(template)) =>
        built = "Err"

(***************************************************************************)
(* C23: after set_number(v) has_number(v) is true, after del_number(v) it  *)
(* is false, in both cases has_number(w) is unchanged for every w other    *)
(* than v, and get_numbers() yields exactly the members in ascending       *)
(* order without duplicates.                                               *)
(***************************************************************************)
Ascending(seq) == \A i, j \in 1..Len(seq) : i < j => seq[i] < seq[j]

C23_Membership ==
    [][last'.cmd \in {"set_number", "del_number"} =>
          /\ has_number(number_set', last'.number) = (last'.cmd = "set_number")
          /\ \A w \in SudokuNumber \ {last'.number} :
                has_number(number_set', w) = has_number(number_set, w)
          /\ Ascending(get_numbers(number_set'))
          /\ {get_numbers(number_set')[i] : i \in 1..Len(get_numbers(number_set'))}
                = {w \in SudokuNumber : has_number(number_set', w)}]_vars

\* 5 has just been removed from a set that keeps 1 and 9 and, between them,
\* other members
C23_Witness ==
    /\ last.cmd = "del_number"
    /\ last.number = 5
    /\ ~has_number(number_set, 5)
    /\ count_numbers(number_set) >= 3
    /\ get_numbers(number_set)[1] = 1
    /\ get_numbers(number_set)[count_numbers(number_set)] = 9

(***************************************************************************)
(* C24: mark_conflicts on a Resolved block at index holding v: if another  *)
(* Fixed or Resolved block of the row, column or box of index holds v, the *)
(* call tags index Source, tags every such block AffectedBy(index) and     *)
(* returns false; otherwise it leaves index without a tag, leaves no block *)
(* tagged AffectedBy(index) and returns true.  It returns false exactly    *)
(* when index ends tagged Source.  Stated for the call each Number         *)
(* command makes and for a call on every Resolved block of every board     *)
(* reached.                                                                *)
(***************************************************************************)
\* a Number or ClearBlock command is handled on a block that is not Fixed
MarkStep ==
    /\ steps' = steps + 1
    /\ last'.cmd \in {"Number", "ClearBlock"}
    /\ ~is_fixed(board[last'.index])

\* the board and the candidate change the command of a MarkStep hands to
\* mark_conflicts, after _update_block wrote the status of the block
MarkCall ==
    LET index == last'.index
        result == update_block(selected.mode, board[index].status, last'.number)
    IN IF last'.cmd = "ClearBlock"
       THEN [board |-> [board EXCEPT ![index].status = Unresolved], info |-> NoInfo]
       ELSE [board |-> [board EXCEPT ![index].status = result.status],
             info |-> IF result.result = "Possible"
                      THEN SomeInfo(last'.number, result.is_cleared)
                      ELSE NoInfo]

\* the other blocks of the row, column or box of f that hold v
HoldersOf(b, f, v) == {g \in BlockIndex \ {f} : SharesUnit(f, g) /\ Holds(b, g, v)}

MarkedResolved(b, f, info) ==
    LET r == mark_conflicts(b, f, info)
        dup == HoldersOf(b, f, b[f].status.number)
    IN /\ dup # {} =>
             /\ r.board[f].conflicting = ConflictSource
             /\ \A g \in dup : r.board[g].conflicting = AffectedBy(f)
             /\ ~r.ret
       /\ dup = {} =>
             /\ r.board[f].conflicting = NoConflict
             /\ \A g \in BlockIndex : r.board[g].conflicting # AffectedBy(f)
             /\ r.ret
       /\ (~r.ret) <=> (r.board[f].conflicting = ConflictSource)

C24_MarkResolved ==
    [][/\ \A f \in BlockIndex, info \in Infos :
             is_resolved(board'[f]) => MarkedResolved(board', f, info)
       /\ (MarkStep /\ is_resolved(MarkCall.board[last'.index])) =>
             /\ MarkedResolved(MarkCall.board, last'.index, MarkCall.info)
             /\ board' = mark_conflicts(MarkCall.board, last'.index, MarkCall.info).board
      ]_vars

\* a number was entered, over another number, that a Given block and a
\* Resolved block of its units hold
C24_Witness ==
    /\ last.cmd = "Number"
    /\ is_resolved(board[last.index])
    /\ board[last.index].conflicting = ConflictSource
    /\ is_resolved(before[last.index])
    /\ before[last.index].status # board[last.index].status
    /\ \E g, h \in BlockIndex :
          /\ is_fixed(board[g]) /\ board[g].conflicting = AffectedBy(last.index)
          /\ is_resolved(board[h]) /\ board[h].conflicting = AffectedBy(last.index)

(***************************************************************************)
(* C25: mark_conflicts on an Unresolved block at index clears the tag of   *)
(* index and the tag of every block tagged AffectedBy(index) or            *)
(* AffectedByPossibilities{index, ..}, leaves every other tag and every    *)
(* status as it was, and returns true; on a Fixed block it changes nothing *)
(* and returns true.  Stated for the call each Number and ClearBlock       *)
(* command makes and, on every board reached, for a call on every         *)
(* Unresolved or Fixed block that is in Focus or carries a tag.            *)
(***************************************************************************)
\* the blocks of a board a call is tried on: those the selection visits and
\* those that carry a tag
Probed(b) == Focus \cup {f \in BlockIndex : b[f].conflicting # NoConflict}

PointsAt(conf, f) ==
    conf.kind \in {"AffectedBy", "AffectedByPossibilities"} /\ conf.block_index = f

MarkedUnresolved(b, f, info) ==
    LET r == mark_conflicts(b, f, info)
    IN /\ r.board[f].conflicting = NoConflict
       /\ \A g \in BlockIndex :
             /\ PointsAt(b[g].conflicting, f) => r.board[g].conflicting = NoConflict
             /\ (g # f /\ ~PointsAt(b[g].conflicting, f)) =>
                   r.board[g].conflicting = b[g].conflicting
             /\ r.board[g].status = b[g].status
       /\ r.ret

MarkedFixed(b, f, info) ==
    LET r == mark_conflicts(b, f, info)
    IN r.board = b /\ r.ret

C25_MarkUnresolved ==
    [][/\ \A f \in Probed(board'), info \in Infos :
             /\ is_unresolved(board'[f]) => MarkedUnresolved(board', f, info)
             /\ is_fixed(board'[f]) => MarkedFixed(board', f, info)
       /\ (MarkStep /\ is_unresolved(MarkCall.board[last'.index])) =>
             /\ MarkedUnresolved(MarkCall.board, last'.index, MarkCall.info)
             /\ board' = mark_conflicts(MarkCall.board, last'.index, MarkCall.info).board
      ]_vars

\* a block that was the source of a conflict has been cleared: a block that
\* was tagged AffectedBy it has lost its tag and another block has kept its
\* own
C25_Witness ==
    /\ last.cmd = "ClearBlock"
    /\ is_unresolved(board[last.index])
    /\ before[last.index].conflicting = ConflictSource
    /\ \E g, h \in BlockIndex :
          /\ before[g].conflicting = AffectedBy(last.index)
          /\ board[g].conflicting = NoConflict
          /\ board[h].conflicting # NoConflict
          /\ board[h].conflicting = before[h].conflicting

(***************************************************************************)
(* C26: mark_conflicts on a Possibilities block at index with the          *)
(* candidate change (v, is_cleared = false): if another Fixed or Resolved  *)
(* block of the row, column or box of index holds v, v is added to the     *)
(* conflicting_numbers of index, every such block is tagged                *)
(* AffectedByPossibilities{index, v} and the call returns false; if none   *)
(* holds v, v is not in the conflicting_numbers afterwards and the call    *)
(* returns true.                                                           *)
(***************************************************************************)
MarkedPossible(b, f, v) ==
    LET r == mark_conflicts(b, f, SomeInfo(v, FALSE))
        dup == HoldersOf(b, f, v)
    IN /\ dup # {} =>
             /\ has_number(r.board[f].status.poss.conflicting_numbers, v)
             /\ \A g \in dup : r.board[g].conflicting = AffectedByPossibilities(f, v)
             /\ ~r.ret
       /\ dup = {} =>
             /\ ~has_number(r.board[f].status.poss.conflicting_numbers, v)
             /\ r.ret

C26_MarkPossible ==
    [][/\ \A f \in Probed(board'), v \in SudokuNumber :
             is_possibilities(board'[f]) => MarkedPossible(board', f, v)
       /\ (/\ MarkStep
           /\ is_possibilities(MarkCall.board[last'.index])
           /\ MarkCall.info.some
           /\ ~MarkCall.info.is_cleared) =>
             /\ MarkedPossible(MarkCall.board, last'.index, last'.number)
             /\ board' = mark_conflicts(MarkCall.board, last'.index, MarkCall.info).board
      ]_vars

\* a candidate was pencilled into a block that keeps another candidate, and
\* a Given block of its units holds the new candidate
C26_Witness ==
    /\ last.cmd = "Number"
    /\ is_possibilities(board[last.index])
    /\ has_number(board[last.index].status.poss.numbers, last.number)
    /\ count_numbers(board[last.index].status.poss.numbers) = 2
    /\ has_number(board[last.index].status.poss.conflicting_numbers, last.number)
    /\ \E g \in BlockIndex :
          /\ is_fixed(board[g])
          /\ before[g].conflicting = NoConflict
          /\ board[g].conflicting = AffectedByPossibilities(last.index, last.number)

(***************************************************************************)
(* C27: mark_conflicts on a Possibilities block at index with the          *)
(* candidate change (v, is_cleared = true) scans for no conflict: it       *)
(* removes v from the conflicting_numbers of index, clears the tag of      *)
(* every block tagged AffectedByPossibilities{index, v}, leaves the tags   *)
(* that name index with another number as they were, tags no block, and    *)
(* returns true even if a Fixed or Resolved block of the units of index    *)
(* holds v.                                                                *)
(***************************************************************************)
MarkedCleared(b, f, v) ==
    LET r == mark_conflicts(b, f, SomeInfo(v, TRUE))
    IN /\ ~has_number(r.board[f].status.poss.conflicting_numbers, v)
       /\ \A g \in BlockIndex :
             /\ b[g].conflicting = AffectedByPossibilities(f, v) =>
                   r.board[g].conflicting = NoConflict
             /\ (/\ b[g].conflicting.kind = "AffectedByPossibilities"
                 /\ b[g].conflicting.block_index = f
                 /\ b[g].conflicting.number # v) =>
                   r.board[g].conflicting = b[g].conflicting
             /\ r.board[g].conflicting \in {b[g].conflicting, NoConflict}
       /\ r.ret

C27_MarkCleared ==
    [][/\ \A f \in Probed(board'), v \in SudokuNumber :
             is_possibilities(board'[f]) => MarkedCleared(board', f, v)
       /\ (/\ MarkStep
           /\ is_possibilities(MarkCall.board[last'.index])
           /\ MarkCall.info.some
           /\ MarkCall.info.is_cleared) =>
             /\ MarkedCleared(MarkCall.board, last'.index, last'.number)
             /\ board' = mark_conflicts(MarkCall.board, last'.index, MarkCall.info).board
      ]_vars

\* a candidate that a Given block of the units holds was pencilled out of a
\* block: the Given block lost its tag, the candidate is no longer in the
\* conflicting_numbers, and the Given block still holds it
C27_Witness ==
    /\ last.cmd = "Number"
    /\ is_possibilities(board[last.index])
    /\ is_possibilities(before[last.index])
    /\ has_number(before[last.index].status.poss.numbers, last.number)
    /\ ~has_number(board[last.index].status.poss.numbers, last.number)
    /\ has_number(before[last.index].status.poss.conflicting_numbers, last.number)
    /\ ~has_number(board[last.index].status.poss.conflicting_numbers, last.number)
    /\ \E g \in HoldersOf(board, last.index, last.number) :
          /\ before[g].conflicting = AffectedByPossibilities(last.index, last.number)
          /\ board[g].conflicting = NoConflict

(***************************************************************************)
(* C28: mark_all_conflicts returns true exactly when no Resolved block     *)
(* shares its number with a Fixed or Resolved block of its row, column or  *)
(* box, which is the boolean verify_board returns on the same board, and   *)
(* it changes the status of no block.  Stated for the call                 *)
(* resolve_satisfied_blocks makes and for a call on every board reached.   *)
(***************************************************************************)
\* a ResolveNakedSingles command is handled
ResolveStep == steps' = steps + 1 /\ last'.cmd = "ResolveNakedSingles"

\* the board with every Possibilities block of one candidate Resolved to
\* that candidate
Singled(b) ==
    [f \in BlockIndex |->
        IF is_possibilities(b[f]) /\ Cardinality(Candidates(b, f)) = 1
        THEN [b[f] EXCEPT !.status = Resolved(CHOOSE v \in Candidates(b, f) : TRUE)]
        ELSE b[f]]

MarkedAll(b) ==
    LET r == mark_all_conflicts(b)
    IN /\ r.ret <=> ~SomeMistake(b)
       /\ r.ret = verify_board(b)
       /\ \A f \in BlockIndex : r.board[f].status = b[f].status

C28_MarkAll ==
    [][/\ MarkedAll(board')
       /\ ResolveStep =>
             /\ MarkedAll(Singled(board))
             /\ LET marked == mark_all_conflicts(Singled(board))
                IN board' = IF marked.ret THEN update_possibilities(marked.board)
                                          ELSE marked.board
      ]_vars

\* a block with one candidate was resolved to a number a peer holds:
\* mark_all_conflicts returned false and the Unresolved blocks were left
C28_Witness ==
    /\ last.cmd = "ResolveNakedSingles"
    /\ ~verify_board(board)
    /\ \E f, g \in BlockIndex :
          /\ is_possibilities(before[f])
          /\ is_resolved(board[f])
          /\ Duplicates(board, f) > 0
          /\ is_unresolved(before[g])
          /\ is_unresolved(board[g])

(***************************************************************************)
(* C29: after mark_all_conflicts, whatever tags the board carried before,  *)
(* every Resolved block that shares its number with a Fixed or Resolved    *)
(* block of its row, column or box is tagged Source or AffectedBy, and     *)
(* every Resolved block that shares it with none carries neither tag.      *)
(***************************************************************************)
MarkedTags(b) ==
    LET r == mark_all_conflicts(b)
    IN \A f \in BlockIndex :
          is_resolved(b[f]) =>
             (Duplicates(b, f) > 0 <=>
                 r.board[f].conflicting.kind \in {"Source", "AffectedBy"})

C29_TagsAfterMarkAll ==
    [][/\ MarkedTags(board')
       /\ ResolveStep =>
             /\ MarkedTags(Singled(board))
             /\ LET marked == mark_all_conflicts(Singled(board)).board
                IN \A f \in BlockIndex : board'[f].conflicting = marked[f].conflicting
      ]_vars

\* ResolveNakedSingles found a Resolved block without a duplicate that was
\* still tagged Source, and left it without a tag
C29_Witness ==
    /\ last.cmd = "ResolveNakedSingles"
    /\ \E f \in BlockIndex :
          /\ is_resolved(before[f])
          /\ Duplicates(before, f) = 0
          /\ before[f].conflicting = ConflictSource
          /\ board[f].status = before[f].status
          /\ board[f].conflicting = NoConflict

(***************************************************************************)
(* C30: resolve_satisfied_blocks turns every Possibilities block that      *)
(* holds exactly one candidate v into Resolved(v) and resolves no other    *)
(* block: a block with no or with several candidates and an Unresolved     *)
(* block get no number, a Fixed and a Resolved block keep theirs.          *)
(***************************************************************************)
C30_ResolveSingles ==
    [][ResolveStep =>
          \A f \in BlockIndex :
             IF is_possibilities(board[f]) /\ Cardinality(Candidates(board, f)) = 1
             THEN \E v \in Candidates(board, f) : board'[f].status = Resolved(v)
             ELSE IF HasValue(board[f])
             THEN board'[f].status = board[f].status
             ELSE ~HasValue(board'[f])
      ]_vars

\* of two blocks with candidates, the one with one candidate was resolved
\* and the one with two was not
C30_Witness ==
    /\ last.cmd = "ResolveNakedSingles"
    /\ \E f, g \in BlockIndex :
          /\ is_possibilities(before[f])
          /\ Cardinality(Candidates(before, f)) = 1
          /\ is_resolved(board[f])
          /\ is_possibilities(before[g])
          /\ Cardinality(Candidates(before, g)) = 2
          /\ ~HasValue(board[g])

(***************************************************************************)
(* C31: inside resolve_satisfied_blocks the conflicts are marked after the *)
(* blocks with one candidate are resolved and before any recomputation;    *)
(* the candidates are recomputed exactly when mark_all_conflicts found no  *)
(* conflict, and when it found one every block that still has candidates   *)
(* keeps exactly the candidates it had.                                    *)
(***************************************************************************)
C31_ResolveOrder ==
    [][ResolveStep =>
          LET singled == Singled(board)
          IN /\ \A f \in BlockIndex :
                   is_resolved(singled[f]) =>
                      (Duplicates(singled, f) > 0 <=>
                          board'[f].conflicting.kind \in {"Source", "AffectedBy"})
             /\ SomeMistake(singled) =>
                   \A f \in BlockIndex :
                      ~HasValue(singled[f]) => board'[f].status = board[f].status
             /\ ~SomeMistake(singled) =>
                   \A f \in BlockIndex :
                      ~HasValue(singled[f]) =>
                         /\ is_possibilities(board'[f])
                         /\ Candidates(board', f) = SudokuNumber \ PeerValues(singled, f)
      ]_vars

\* a block with one candidate was resolved to a number a peer holds, and a
\* block with two candidates, one of them held by a peer, kept both
C31_Witness ==
    /\ last.cmd = "ResolveNakedSingles"
    /\ \E f, g \in BlockIndex :
          /\ is_possibilities(before[f])
          /\ is_resolved(board[f])
          /\ board[f].conflicting = ConflictSource
          /\ is_possibilities(board[g])
          /\ Cardinality(Candidates(board, g)) = 2
          /\ Candidates(board, g) = Candidates(before, g)
          /\ Candidates(board, g) \cap PeerValues(board, g) # {}

(***************************************************************************)
(* C32: when a Hidden Single commit selects h for a Possibilities block c  *)
(* (h is the one candidate of c that no other Possibilities block of the   *)
(* container holds, the containers being tried in the order row, column,   *)
(* box and the first with exactly one such candidate winning), c is left   *)
(* with exactly {h} and empty conflicting_numbers, h is removed from every *)
(* other Possibilities block of the row, column and box of c, and no       *)
(* Fixed, Resolved or Unresolved block changes.  Stated for every          *)
(* iteration of the commit and for the board the commit leaves.            *)
(***************************************************************************)
RECURSIVE HiddenUpTo(_, _, _)
\* the board a Hidden Single commit has made of b after the iterations
\* k .. stop
HiddenUpTo(b, k, stop) ==
    IF k > stop THEN b
    ELSE LET after == HiddenSingleStep(b, iter_numbers[k][1], iter_numbers[k][2], FALSE)
         IN IF DOMAIN after = BlockIndex
            THEN HiddenUpTo(after, k + 1, stop)
            ELSE after

\* the number the strategy selects for c on b, 0 if none
Selected(b, c) ==
    LET in_row == Unshared(b, c, RowOthers(b, c))
        in_col == Unshared(b, c, ColOthers(b, c))
        in_box == Unshared(b, c, BoxOthers(b, c))
    IN IF ~is_possibilities(b[c]) THEN 0
       ELSE IF Cardinality(in_row) = 1 THEN CHOOSE h \in in_row : TRUE
       ELSE IF Cardinality(in_col) = 1 THEN CHOOSE h \in in_col : TRUE
       ELSE IF Cardinality(in_box) = 1 THEN CHOOSE h \in in_box : TRUE
       ELSE 0

\* the iteration on c made p into a as the claim says
ActedOn(p, a, c) ==
    LET h == Selected(p, c)
    IN /\ \A f \in BlockIndex : ~is_possibilities(p[f]) => a[f] = p[f]
       /\ h # 0 =>
             /\ is_possibilities(a[c])
             /\ Candidates(a, c) = {h}
             /\ Members(a[c].status.poss.conflicting_numbers) = {}
             /\ \A f \in RowOthers(p, c) \cup ColOthers(p, c) \cup BoxOthers(p, c) :
                   is_possibilities(a[f]) /\ h \notin Candidates(a, f)

C32_HiddenSingleCommit ==
    [][(steps' = steps + 1 /\ last'.cmd = "HiddenSingle" /\ ~last'.show_only_effect) =>
          /\ board' = HiddenUpTo(board, 1, 81)
          /\ \A c \in {f \in BlockIndex : is_possibilities(board[f])} :
                LET p == HiddenUpTo(board, 1, RowMajor(c) - 1)
                    a == HiddenUpTo(p, RowMajor(c), RowMajor(c))
                IN /\ ActedOn(p, a, c)
                   /\ Selected(p, c) # 0 =>
                         /\ Candidates(board', c) = {Selected(p, c)}
                         /\ Members(board'[c].status.poss.conflicting_numbers) = {}
                         /\ \A f \in RowOthers(p, c) \cup ColOthers(p, c)
                                         \cup BoxOthers(p, c) :
                               Selected(p, c) \notin Candidates(board', f)
          /\ \A f \in BlockIndex : ~is_possibilities(board[f]) => board'[f] = board[f]
      ]_vars

\* Hidden Single was committed on a board where a block with several
\* candidates, to which its row leaves not exactly one, was collapsed to the
\* number selected for it, and a block of its units lost that number
C32_Witness ==
    /\ HiddenSingleCommitted
    /\ \E c, f \in BlockIndex :
          /\ is_possibilities(before[c])
          /\ Cardinality(Candidates(before, c)) >= 2
          /\ Cardinality(Unshared(before, c, RowOthers(before, c))) # 1
          /\ Selected(before, c) # 0
          /\ Candidates(board, c) = {Selected(before, c)}
          /\ f \in RowOthers(before, c) \cup ColOthers(before, c) \cup BoxOthers(before, c)
          /\ Selected(before, c) \in Candidates(before, f)
          /\ Selected(before, c) \notin Candidates(board, f)

(***************************************************************************)
(* C33: find_resolved_block_mistakes(index) returns None when the block at *)
(* index is not Resolved or when no other Fixed or Resolved block of its   *)
(* row, column or box holds its number; otherwise it returns exactly those *)
(* other blocks, never index itself and each of them exactly once, also a  *)
(* block that lies in both the row and the box of index.                   *)
(***************************************************************************)
C33_AsStated ==
    \A f \in BlockIndex :
        LET mistakes == find_resolved_block_mistakes(board, f)
            holders == IF is_resolved(board[f])
                       THEN HoldersOf(board, f, board[f].status.number)
                       ELSE {}
        IN /\ {mistakes[k] : k \in 1..Len(mistakes)} = holders
           /\ Len(mistakes) = Cardinality(holders)

(***************************************************************************)
(* C34: after any sequence of edits of single blocks (a number entered, a  *)
(* block cleared), each followed by mark_conflicts at the edited index,    *)
(* every Resolved block whose number a Fixed or Resolved block of its row, *)
(* column or box holds carries a conflict tag.                             *)
(***************************************************************************)
C34_AsStated ==
    \A f \in BlockIndex :
        (is_resolved(board[f]) /\ Duplicates(board, f) > 0) =>
            board[f].conflicting # NoConflict

(***************************************************************************)
(* C35: in every board reached by pencilling candidates in and out,        *)
(* recomputing the candidates, resolving the blocks with one candidate and *)
(* engaging the strategies, a block tagged AffectedByPossibilities{s, v}   *)
(* points at a Possibilities block s whose numbers and conflicting_numbers *)
(* both contain v.                                                         *)
(***************************************************************************)
C35_AsStated ==
    \A f \in BlockIndex :
        board[f].conflicting.kind = "AffectedByPossibilities" =>
            LET s == board[f].conflicting.block_index
                v == board[f].conflicting.number
            IN /\ is_possibilities(board[s])
               /\ has_number(board[s].status.poss.numbers, v)
               /\ has_number(board[s].status.poss.conflicting_numbers, v)

(***************************************************************************)
(* C36: for every board, every block whose candidates a Hidden Single      *)
(* commit changes carries a Hidden Single strategy marker after the        *)
(* Hidden Single preview of the same board.                                *)
(***************************************************************************)
C36_AsStated ==
    LET cleared == clear_strategy_markers(board)
        preview == IF DOMAIN cleared = BlockIndex
                   THEN HiddenSingleStrategy(cleared, TRUE) ELSE cleared
        commit == IF DOMAIN preview = BlockIndex
                  THEN HiddenSingleStrategy(preview, FALSE) ELSE preview
    IN \A f \in BlockIndex :
          (is_possibilities(board[f]) /\ Candidates(commit, f) # Candidates(board, f)) =>
             \E m \in preview[f].status.poss.strategy_markers : m.strategy = "HiddenSingle"

\* the commands the claim names as changing the cells of a board
CellCommands ==
    {"Number", "ClearBlock", "CalculatePossibilities", "ResolveNakedSingles", "Reset"}

\* the last processed command was one of these commands, it changed a block
\* of the board, and the last Strategy command before it was a preview of
\* the strategy
ChangedAfterPreview(strategy) ==
    /\ PreviewedBefore(strategy)
    /\ last.cmd \in CellCommands
    /\ board # before

(***************************************************************************)
(* C37: when a command other than Strategy has changed the blocks of the   *)
(* board since the preview of a strategy, the next Strategy command for    *)
(* that strategy is a preview again, not a commit.                         *)
(***************************************************************************)
C37_AsStated ==
    [][(StrategyProcessed /\ ChangedAfterPreview(last'.cmd)) => last'.show_only_effect]_vars

\* every block of the board is Given or Resolved and the board verifies
Finished(b) ==
    /\ \A f \in BlockIndex : HasValue(b[f])
    /\ verify_board(b)

\* the step processes a Reset command
ResetProcessed == steps' = steps + 1 /\ last'.cmd = "Reset"

(***************************************************************************)
(* C38: a board whose state is FinishedVerified holds only Given and       *)
(* Resolved blocks and verifies; every step that is not a Reset leaves the *)
(* board and the state as they are, and a Reset returns the state to       *)
(* Playing.                                                                *)
(***************************************************************************)
C38_FinishedFrozen ==
    [][/\ board_state' = "FinishedVerified" => Finished(board')
       /\ board_state = "FinishedVerified" =>
             /\ ~ResetProcessed => board' = board /\ board_state' = board_state
             /\ ResetProcessed => board_state' = "Playing"]_vars

\* a command was ignored on a finished board that the user completed
C38_Witness ==
    /\ board_state = "FinishedVerified"
    /\ last.cmd = "Ignored"
    /\ \E f \in BlockIndex : is_resolved(board[f])

(***************************************************************************)
(* C39: a fill_board_u8 that returns an error leaves the board as it was   *)
(* before the call.                                                        *)
(***************************************************************************)
C39_AsStated ==
    (last.cmd = "fill_board_u8" /\ built = "Err") => board = before

(***************************************************************************)
(* C40: in both modes Naked Pair leaves one board, the same candidate sets *)
(* and strategy markers in every block, whatever the order in which the    *)
(* groups of a row are taken from the map.                                 *)
(***************************************************************************)
C40_AsStated ==
    \A show_only_effect \in BOOLEAN :
        Cardinality(NakedPairStrategy(board, show_only_effect)) = 1
=============================================================================
